---- MODULE Spec2Model ----
(***************************************************************************)
(* pi-extensions: the pi-sandbox plugin (src/unnamed/part_001), the        *)
(* prompt-history plugin (src/unnamed/part_003), the startup-model plugin  *)
(* (src/index.ts, src/unnamed/part_004) and the footer plugin              *)
(* (src/unnamed/part_000).                                                 *)
(*                                                                         *)
(* Strings are TLA+ strings; a character is a string of length one.        *)
(* Paths are POSIX paths, as on the only platform the plugin supports.     *)
(***************************************************************************)
EXTENDS Integers, Sequences, FiniteSets, TLC

(***************************************************************************)
(* String primitives (JavaScript String methods used by the plugin)        *)
(***************************************************************************)
CharAt(s, i) == SubSeq(s, i, i)

startsWith(s, pre) == Len(s) >= Len(pre) /\ SubSeq(s, 1, Len(pre)) = pre

\* s.slice(n): the string without its first n characters
slice(s, n) == SubSeq(s, n + 1, Len(s))

\* s.indexOf(c) + 1 for a one-character c; 0 when c does not occur
IndexOfChar(s, c) ==
    IF \E i \in 1..Len(s) : CharAt(s, i) = c
    THEN CHOOSE i \in 1..Len(s) :
            /\ CharAt(s, i) = c
            /\ \A j \in 1..(i - 1) : CharAt(s, j) # c
    ELSE 0

\* s.split("/")
RECURSIVE SplitSlash(_)
SplitSlash(s) ==
    LET i == IndexOfChar(s, "/")
    IN  IF i = 0 THEN <<s>>
        ELSE <<SubSeq(s, 1, i - 1)>> \o SplitSlash(slice(s, i))

\* segs.join("/")
RECURSIVE JoinSlash(_)
JoinSlash(segs) ==
    IF segs = <<>> THEN ""
    ELSE IF Len(segs) = 1 THEN segs[1]
    ELSE segs[1] \o "/" \o JoinSlash(Tail(segs))

(***************************************************************************)
(* node:path (posix)                                                       *)
(***************************************************************************)
sep == "/"

isAbsolute(p) == Len(p) > 0 /\ CharAt(p, 1) = "/"

\* normalizeString: drops empty and "." segments, resolves ".." against the
\* segment before it; above the start, ".." is kept only if allowAboveRoot.
RECURSIVE NormSegs(_, _, _)
NormSegs(segs, res, allowAboveRoot) ==
    IF segs = <<>> THEN res
    ELSE LET h == Head(segs)
             t == Tail(segs)
         IN  IF h = "" \/ h = "." THEN NormSegs(t, res, allowAboveRoot)
             ELSE IF h = ".."
                  THEN IF Len(res) > 0 /\ res[Len(res)] # ".."
                       THEN NormSegs(t, SubSeq(res, 1, Len(res) - 1), allowAboveRoot)
                       ELSE IF allowAboveRoot
                            THEN NormSegs(t, Append(res, ".."), allowAboveRoot)
                            ELSE NormSegs(t, res, allowAboveRoot)
                  ELSE NormSegs(t, Append(res, h), allowAboveRoot)

normalizeString(path, allowAboveRoot) ==
    JoinSlash(NormSegs(SplitSlash(path), <<>>, allowAboveRoot))

\* path.normalize
normalize(path) ==
    IF path = "" THEN "."
    ELSE LET abs      == isAbsolute(path)
             trailing == CharAt(path, Len(path)) = "/"
             body     == normalizeString(path, ~abs)
         IN  IF body = ""
             THEN IF abs THEN "/" ELSE IF trailing THEN "./" ELSE "."
             ELSE (IF abs THEN "/" ELSE "") \o body \o (IF trailing THEN "/" ELSE "")

\* path.join(a, b): empty arguments are skipped, the rest is normalized
joinPath(a, b) ==
    IF a = "" /\ b = "" THEN "."
    ELSE IF a = "" THEN normalize(b)
    ELSE IF b = "" THEN normalize(a)
    ELSE normalize(a \o "/" \o b)

\* path.resolve(base, p) for an absolute base (ctx.cwd, a real path)
resolve(base, p) ==
    LET raw == IF isAbsolute(p) THEN p
               ELSE IF p = "" THEN base
               ELSE base \o "/" \o p
    IN  "/" \o normalizeString(raw, FALSE)

\* path.dirname: everything before the last separator that is not trailing
RECURSIVE DirnameEnd(_, _, _)
DirnameEnd(path, i, matchedSlash) ==
    IF i < 2 THEN 0
    ELSE IF CharAt(path, i) = "/"
         THEN IF ~matchedSlash THEN i ELSE DirnameEnd(path, i - 1, matchedSlash)
         ELSE DirnameEnd(path, i - 1, FALSE)

dirname(path) ==
    IF path = "" THEN "."
    ELSE LET hasRoot == CharAt(path, 1) = "/"
             end     == DirnameEnd(path, Len(path), TRUE)
         IN  IF end = 0 THEN (IF hasRoot THEN "/" ELSE ".")
             ELSE IF hasRoot /\ end = 2 THEN "//"
             ELSE SubSeq(path, 1, end - 1)

\* the segments of an absolute path, root first
PathSegs(p) == NormSegs(SplitSlash(p), <<>>, FALSE)

RECURSIVE CommonLen(_, _)
CommonLen(a, b) ==
    IF a = <<>> \/ b = <<>> \/ Head(a) # Head(b) THEN 0
    ELSE 1 + CommonLen(Tail(a), Tail(b))

\* path.relative(from, to) for absolute arguments
relative(from, to) ==
    LET f == PathSegs(from)
        t == PathSegs(to)
        k == CommonLen(f, t)
        ups == [i \in 1..(Len(f) - k) |-> ".."]
    IN  JoinSlash(ups \o SubSeq(t, k + 1, Len(t)))

(***************************************************************************)
(* Pure helpers of the plugin                                              *)
(***************************************************************************)
Null == "<null>"

\* JavaScript truthiness of a string | null value
Truthy(v) == v # Null /\ v # ""

UpperChars == "ABCDEFGHIJKLMNOPQRSTUVWXYZ"
LowerChars == "abcdefghijklmnopqrstuvwxyz"

UpperSet == {CharAt(UpperChars, i) : i \in 1..Len(UpperChars)}

LowerChar(c) ==
    IF c \in UpperSet THEN CharAt(LowerChars, IndexOfChar(UpperChars, c)) ELSE c

RECURSIVE toLowerCase(_)
toLowerCase(s) ==
    IF s = "" THEN "" ELSE LowerChar(CharAt(s, 1)) \o toLowerCase(slice(s, 1))

IsSpace(c) == c \in {" ", "\t", "\n", "\r"}

RECURSIVE trimStart(_)
trimStart(s) ==
    IF s # "" /\ IsSpace(CharAt(s, 1)) THEN trimStart(slice(s, 1)) ELSE s

RECURSIVE trimEnd(_)
trimEnd(s) ==
    IF s # "" /\ IsSpace(CharAt(s, Len(s)))
    THEN trimEnd(SubSeq(s, 1, Len(s) - 1)) ELSE s

trim(s) == trimEnd(trimStart(s))

normalizeMode(input) ==
    IF ~Truthy(input) THEN Null
    ELSE LET s == toLowerCase(trim(input))
         IN  IF s \in {"read-only", "readonly", "ro"} THEN "read-only"
             ELSE IF s \in {"read-write", "readwrite", "rw"} THEN "read-write"
             ELSE IF s = "yolo" THEN "yolo"
             ELSE Null

\* os.homedir()
homedir == "/h"

\* as expandUserPath, but the "@" sentinel is left in place
expandUserPath_KeepAt(p) ==
    IF p = "~" THEN homedir
    ELSE IF startsWith(p, "~/") THEN joinPath(homedir, slice(p, 2))
    ELSE p

expandUserPath(p) ==
    LET noAt == IF startsWith(p, "@") THEN slice(p, 1) ELSE p
    IN  IF noAt = "~" THEN homedir
        ELSE IF startsWith(noAt, "~/") THEN joinPath(homedir, slice(noAt, 2))
        ELSE noAt

\* as isPathInsideRoot, by comparing the strings' prefixes
isPathInsideRoot_Prefix(rootAbs, targetAbs) == startsWith(targetAbs, rootAbs)

\* as isPathInsideRoot, rejecting every relative form that begins with ".."
isPathInsideRoot_DotDot(rootAbs, targetAbs) ==
    LET rel == relative(rootAbs, targetAbs)
    IN  IF rel = "" THEN TRUE
        ELSE IF startsWith(rel, "..") THEN FALSE
        ELSE IF isAbsolute(rel) THEN FALSE
        ELSE TRUE

isPathInsideRoot(rootAbs, targetAbs) ==
    LET rel == relative(rootAbs, targetAbs)
    IN  IF rel = "" THEN TRUE
        ELSE IF rel = ".." THEN FALSE
        ELSE IF startsWith(rel, ".." \o sep) THEN FALSE
        ELSE IF isAbsolute(rel) THEN FALSE
        ELSE TRUE

\* s.replace(/'/g, "'\\''")
RECURSIVE EscapeQuotes(_)
EscapeQuotes(s) ==
    IF s = "" THEN ""
    ELSE (IF CharAt(s, 1) = "'" THEN "'\\''" ELSE CharAt(s, 1))
         \o EscapeQuotes(slice(s, 1))

\* as shellEscapeSingle, with embedded quotes left as they are
shellEscapeSingle_Plain(s) == "'" \o s \o "'"

shellEscapeSingle(s) == "'" \o EscapeQuotes(s) \o "'"

(***************************************************************************)
(* The file system the plugin looks at (node:fs stat / realpath).          *)
(* A file system maps absolute paths to nodes; stat and realpath follow    *)
(* symbolic links in every component and fail on a missing component.      *)
(***************************************************************************)
Err == "<error>"

\* the kernel's limit on nested symbolic links (ELOOP), scaled down
MaxSymlinks == 3

Dir           == [kind |-> "dir",  target |-> "", exec |-> TRUE]
File(x)       == [kind |-> "file", target |-> "", exec |-> x]
Link(t)       == [kind |-> "link", target |-> t,  exec |-> TRUE]
\* a node stat and realpath fail on (EACCES, EIO, ...)
NoAccess      == [kind |-> "noaccess", target |-> "", exec |-> FALSE]

RECURSIVE Walk(_, _, _, _)
Walk(f, cur, rest, fuel) ==
    IF rest = <<>> THEN cur
    ELSE LET next == (IF cur = "/" THEN "" ELSE cur) \o "/" \o Head(rest)
         IN  IF next \notin DOMAIN f THEN Err
             ELSE IF f[next].kind = "noaccess" THEN Err
             ELSE IF f[next].kind = "dir" THEN Walk(f, next, Tail(rest), fuel)
             ELSE IF f[next].kind = "file"
                  THEN IF Tail(rest) = <<>> THEN next ELSE Err
             ELSE IF fuel = 0 THEN Err
             ELSE Walk(f, "/", PathSegs(f[next].target) \o Tail(rest), fuel - 1)

\* fs.realpath(p): the symlink-free path, or Err when it throws
realpath(f, p) ==
    IF "/" \in DOMAIN f /\ f["/"].kind = "noaccess" THEN Err
    ELSE Walk(f, "/", PathSegs(p), MaxSymlinks)

\* fs.stat(p): the node p resolves to, or Err when it throws
stat(f, p) ==
    LET r == realpath(f, p)
    IN  IF r = Err THEN Err ELSE IF r = "/" THEN Dir ELSE f[r]

StatOk(f, p) == realpath(f, p) # Err

\* as canonicalizeStep, giving up at the first failure instead of walking up
canonicalizeStep_NoWalk(f, cur, absPath) ==
    IF StatOk(f, cur)
    THEN LET realCur   == realpath(f, cur)
             remainder == relative(cur, absPath)
         IN  [done |-> TRUE,
              value |-> IF remainder # "" THEN resolve(realCur, remainder) ELSE realCur]
    ELSE [done |-> TRUE, value |-> absPath]

\* as canonicalizeStep, walking up two levels after a failure
canonicalizeStep_TwoUp(f, cur, absPath) ==
    IF StatOk(f, cur)
    THEN LET realCur   == realpath(f, cur)
             remainder == relative(cur, absPath)
         IN  [done |-> TRUE,
              value |-> IF remainder # "" THEN resolve(realCur, remainder) ELSE realCur]
    ELSE LET parent == dirname(dirname(cur))
         IN  IF parent = cur THEN [done |-> TRUE, value |-> absPath]
             ELSE [done |-> FALSE, value |-> parent]

\* one iteration of the loop of canonicalizePossiblyMissingPath
canonicalizeStep(f, cur, absPath) ==
    IF StatOk(f, cur)
    THEN LET realCur   == realpath(f, cur)
             remainder == relative(cur, absPath)
         IN  [done |-> TRUE,
              value |-> IF remainder # "" THEN resolve(realCur, remainder) ELSE realCur]
    ELSE LET parent == dirname(cur)
         IN  IF parent = cur THEN [done |-> TRUE, value |-> absPath]
             ELSE [done |-> FALSE, value |-> parent]

BwrapCandidates == <<"/usr/bin/bwrap", "/bin/bwrap">>

IsExecutableFile(f, p) ==
    /\ StatOk(f, p)
    /\ stat(f, p).kind = "file"
    /\ stat(f, p).exec

findBwrapStrict(f) ==
    IF \E i \in 1..Len(BwrapCandidates) : IsExecutableFile(f, BwrapCandidates[i])
    THEN BwrapCandidates[CHOOSE i \in 1..Len(BwrapCandidates) :
            /\ IsExecutableFile(f, BwrapCandidates[i])
            /\ \A j \in 1..(i - 1) : ~IsExecutableFile(f, BwrapCandidates[j])]
    ELSE Null

(***************************************************************************)
(* Version-control discovery (ensureRoot, the git block)                   *)
(***************************************************************************)
\* result of spawnSync: status is 0, a non-zero exit code, or -1 for null
\* (git missing or timed out); stdout is a string or Null
Proc(status, stdout) == [status |-> status, stdout |-> stdout]

OrEmpty(v) == IF v = Null THEN "" ELSE v

\* s.split(/\r?\n/)[0]
firstLine(s) ==
    LET i == IndexOfChar(s, "\n")
    IN  IF i = 0 THEN s
        ELSE IF i > 1 /\ CharAt(s, i - 1) = "\r" THEN SubSeq(s, 1, i - 2)
        ELSE SubSeq(s, 1, i - 1)

realpathOr(f, p) == IF realpath(f, p) # Err THEN realpath(f, p) ELSE p

\* candidates.splice(candidates.indexOf(v), 1)
RECURSIVE RemoveFirst(_, _)
RemoveFirst(seq, v) ==
    IF seq = <<>> THEN <<>>
    ELSE IF Head(seq) = v THEN Tail(seq)
    ELSE <<Head(seq)>> \o RemoveFirst(Tail(seq), v)

\* [...new Set(seq)]: first occurrences, in insertion order
RECURSIVE SetOrder(_, _)
SetOrder(seq, acc) ==
    IF seq = <<>> THEN acc
    ELSE SetOrder(Tail(seq),
                  IF \E i \in 1..Len(acc) : acc[i] = Head(seq)
                  THEN acc ELSE Append(acc, Head(seq)))

NoGit == [gitDirReal |-> Null, gitCommonDirReal |-> Null, extras |-> <<>>]

\* as detectGit, keeping both directories when one contains the other
detectGit_NoPrune(f, g, rootReal) ==
    IF ~StatOk(f, joinPath(rootReal, ".git")) THEN NoGit
    ELSE IF ~(g.inside.status = 0 /\ trim(OrEmpty(g.inside.stdout)) = "true")
    THEN NoGit
    ELSE LET gitDirOut    == firstLine(trim(OrEmpty(g.gitDir.stdout)))
             gitCommonOut == firstLine(trim(OrEmpty(g.gitCommonDir.stdout)))
             gd == IF g.gitDir.status = 0 /\ Truthy(gitDirOut)
                   THEN realpathOr(f, gitDirOut) ELSE Null
             gc == IF g.gitCommonDir.status = 0 /\ Truthy(gitCommonOut)
                   THEN realpathOr(f, gitCommonOut) ELSE Null
             keep(q) == Truthy(q) /\ ~isPathInsideRoot(rootReal, q)
             candidates == SelectSeq(<<gd, gc>>, keep)
             pruned == candidates
         IN  [gitDirReal |-> gd, gitCommonDirReal |-> gc,
              extras |-> SetOrder(pruned, <<>>)]

\* as detectGit, asking git without looking for Root/.git first
detectGit_NoDotGit(f, g, rootReal) ==
    IF ~(g.inside.status = 0 /\ trim(OrEmpty(g.inside.stdout)) = "true")
    THEN NoGit
    ELSE LET gitDirOut    == firstLine(trim(OrEmpty(g.gitDir.stdout)))
             gitCommonOut == firstLine(trim(OrEmpty(g.gitCommonDir.stdout)))
             gd == IF g.gitDir.status = 0 /\ Truthy(gitDirOut)
                   THEN realpathOr(f, gitDirOut) ELSE Null
             gc == IF g.gitCommonDir.status = 0 /\ Truthy(gitCommonOut)
                   THEN realpathOr(f, gitCommonOut) ELSE Null
             keep(q) == Truthy(q) /\ ~isPathInsideRoot(rootReal, q)
             candidates == SelectSeq(<<gd, gc>>, keep)
             pruned ==
                 IF Truthy(gc) /\ Truthy(gd) /\ gc # gd /\ isPathInsideRoot(gc, gd)
                 THEN RemoveFirst(candidates, gd)
                 ELSE IF Truthy(gc) /\ Truthy(gd) /\ gc # gd /\ isPathInsideRoot(gd, gc)
                 THEN RemoveFirst(candidates, gc)
                 ELSE candidates
         IN  [gitDirReal |-> gd, gitCommonDirReal |-> gc,
              extras |-> SetOrder(pruned, <<>>)]

detectGit(f, g, rootReal) ==
    IF ~StatOk(f, joinPath(rootReal, ".git")) THEN NoGit
    ELSE IF ~(g.inside.status = 0 /\ trim(OrEmpty(g.inside.stdout)) = "true")
    THEN NoGit
    ELSE LET gitDirOut    == firstLine(trim(OrEmpty(g.gitDir.stdout)))
             gitCommonOut == firstLine(trim(OrEmpty(g.gitCommonDir.stdout)))
             gd == IF g.gitDir.status = 0 /\ Truthy(gitDirOut)
                   THEN realpathOr(f, gitDirOut) ELSE Null
             gc == IF g.gitCommonDir.status = 0 /\ Truthy(gitCommonOut)
                   THEN realpathOr(f, gitCommonOut) ELSE Null
             keep(q) == Truthy(q) /\ ~isPathInsideRoot(rootReal, q)
             candidates == SelectSeq(<<gd, gc>>, keep)
             pruned ==
                 IF Truthy(gc) /\ Truthy(gd) /\ gc # gd /\ isPathInsideRoot(gc, gd)
                 THEN RemoveFirst(candidates, gd)
                 ELSE IF Truthy(gc) /\ Truthy(gd) /\ gc # gd /\ isPathInsideRoot(gd, gc)
                 THEN RemoveFirst(candidates, gc)
                 ELSE candidates
         IN  [gitDirReal |-> gd, gitCommonDirReal |-> gc,
              extras |-> SetOrder(pruned, <<>>)]

(***************************************************************************)
(* The environments a session can start in                                 *)
(***************************************************************************)
BaseFS ==
    "/h" :> Dir @@ "/h/p" :> Dir @@ "/h/p/d" :> Dir @@ "/h/p/f" :> File(FALSE) @@
    "/h/p/l" :> Link("/e") @@ "/h/p/m" :> Link("/e/f") @@ "/h/p/k" :> Link("/e/n") @@
    "/h/pq" :> Dir @@
    "/e" :> Dir @@ "/e/f" :> File(FALSE) @@ "/w" :> Link("/h/p") @@
    "/tmp" :> Dir @@ "/g" :> Dir @@ "/g/w" :> Dir @@ "/k" :> Dir @@
    "/usr" :> Dir @@ "/usr/bin" :> Dir @@ "/bin" :> Dir

DotGitDir  == "/h/p/.git" :> Dir
DotGitFile == "/h/p/.git" :> File(FALSE)
BwrapUsr   == "/usr/bin/bwrap" :> File(TRUE)
BwrapBin   == "/usr/bin/bwrap" :> File(FALSE) @@ "/bin/bwrap" :> File(TRUE)

GitAbsent == [inside |-> Proc(-1, Null), gitDir |-> Proc(-1, Null),
              gitCommonDir |-> Proc(-1, Null)]
GitRepo(gd, gc) == [inside |-> Proc(0, "true\n"), gitDir |-> gd, gitCommonDir |-> gc]

StockTools == <<"read", "bash", "edit", "write">>

World(f, g, ui, active, all) ==
    [fs |-> f, git |-> g, hasUI |-> ui, activeTools |-> active, allTools |-> all]

Worlds ==
    << \* no repository, bwrap installed
      World(BaseFS @@ BwrapUsr, GitAbsent, TRUE, StockTools, StockTools),
      \* ordinary repository (.git inside the root), no bwrap
      World(BaseFS @@ DotGitDir,
            GitRepo(Proc(0, "/h/p/.git\n"), Proc(0, "/h/p/.git\n")),
            TRUE, <<"read", "bash">>, StockTools),
      \* linked worktree: git dir nested in the common dir, both outside
      World(BaseFS @@ DotGitFile @@ BwrapBin,
            GitRepo(Proc(0, "/g/w\n"), Proc(0, "/g\r\n")),
            FALSE, StockTools, StockTools),
      \* unrelated git dir and common dir, the latter missing on disk
      World(BaseFS @@ DotGitFile @@ BwrapUsr,
            GitRepo(Proc(0, "/k\n"), Proc(0, "/x/y\n")),
            TRUE, <<"write", "read">>, <<"read", "bash", "write">>) >>

\* Environments for version-control discovery: every combination of what
\* sits at Root/.git and of the results of the three git queries.  git prints
\* absolute paths for both directory queries; a query that fails exits
\* non-zero with nothing on stdout, or is killed (status null) on timeout,
\* possibly after it has printed.
DotGitChoices == <<BaseFS @@ BwrapUsr,
                   BaseFS @@ DotGitDir @@ BwrapUsr,
                   BaseFS @@ DotGitFile @@ BwrapUsr>>

InsideChoices == <<Proc(0, "true\n"), Proc(0, "false\n"), Proc(128, ""), Proc(-1, Null)>>

GitDirChoices == <<Proc(0, "/g/w\n"), Proc(0, "/h/p/.git\n"), Proc(0, "/g\n"),
                   Proc(0, "\n"), Proc(128, ""), Proc(-1, "/g/w\n")>>

GitCommonDirChoices == <<Proc(0, "/g\r\n"), Proc(0, "/h/p/.git\n"), Proc(0, "/g/w\n"),
                         Proc(0, "/k\n"), Proc(0, ""), Proc(128, ""), Proc(-1, Null)>>

\* the k-th combination, k counted from 0
GitWorld(k) ==
    LET nC == Len(GitCommonDirChoices)
        nD == Len(GitDirChoices)
        nI == Len(InsideChoices)
    IN  World(DotGitChoices[(k \div (nC * nD * nI)) + 1],
              [inside       |-> InsideChoices[((k \div (nC * nD)) % nI) + 1],
               gitDir       |-> GitDirChoices[((k \div nC) % nD) + 1],
               gitCommonDir |-> GitCommonDirChoices[(k % nC) + 1]],
              TRUE, StockTools, StockTools)

\* the discovery environments are numbered after those of Worlds
GitWorldIds ==
    (Len(Worlds) + 1)..(Len(Worlds) + Len(DotGitChoices) * Len(InsideChoices)
                                      * Len(GitDirChoices) * Len(GitCommonDirChoices))

\* Environments for path canonicalization: the ordinary file system, one
\* where nothing can be resolved, not even the root, and one where the
\* startup directory itself cannot be accessed.
HardWorlds ==
    <<World(BaseFS @@ BwrapUsr, GitAbsent, TRUE, StockTools, StockTools),
      World(("/" :> NoAccess) @@ BaseFS @@ BwrapUsr, GitAbsent, TRUE, StockTools, StockTools),
      World(("/h/p" :> NoAccess) @@ BaseFS @@ BwrapUsr, GitAbsent, TRUE, StockTools, StockTools)>>

\* they are numbered after the discovery environments
HardWorldBase ==
    Len(Worlds) + Len(DotGitChoices) * Len(InsideChoices)
                  * Len(GitDirChoices) * Len(GitCommonDirChoices)

HardWorldIds == (HardWorldBase + 1)..(HardWorldBase + Len(HardWorlds))

(***************************************************************************)
(* Session state                                                           *)
(***************************************************************************)
VARIABLES
    world,              \* the environment of the session, an index of Worlds
    ctxCwd,             \* ctx.cwd: the directory pi was started in
    mode,               \* SandboxMode
    rootDir,
    rootDirReal,
    rootInit,           \* the rootInit promise: "unset", "pending", "resolved"
    initPc,             \* where the pending initialization pass is suspended
    bwrapPath,
    gitDirReal,
    gitCommonDirReal,
    extraWritableDirs,
    activeTools,        \* pi.getActiveTools()
    status,             \* the "pi-sandbox" status entry of the UI
    agent,              \* the tool handler in flight (tool_call or bash)
    user,               \* the host/user handler in flight
    history,            \* the prompt-history plugin (src/unnamed/part_003)
    startup,            \* the startup-model plugin (src/index.ts, src/unnamed/part_004)
    footer              \* the footer plugin (src/unnamed/part_000)

sandboxVars == <<world, ctxCwd, mode, rootDir, rootDirReal, rootInit, initPc,
                 bwrapPath, gitDirReal, gitCommonDirReal, extraWritableDirs,
                 activeTools, status, agent, user>>

\* the other plugins of the repository: each keeps its own state and shares
\* none with pi-sandbox
pluginVars == <<history, startup, footer>>

vars == <<sandboxVars, pluginVars>>

\* part_003:32-33: the module state of the prompt-history plugin when it is
\* loaded, in a session without prompts and with no stored sessions
\* no selector is shown
NoSelector ==
    [open |-> FALSE, records |-> <<>>, filteredRecords |-> <<>>,
     selectedIndex |-> 0, searchInput |-> ""]

HistoryAtLoad ==
    [promptCache |-> <<>>, cacheUpdatedAt |-> 0, now |-> 1,
     stored |-> <<>>, sessionFile |-> Null, entries |-> <<>>,
     selector |-> NoSelector, editorText |-> "", notified |-> Null]

\* the startup-model plugin keeps no state of its own: its state is the
\* settings files and what the host holds (ctx.cwd, ctx.model, the thinking
\* level, the last notification, the status entry)
GLOBAL_SETTINGS_PATH == joinPath(homedir, joinPath(".pi", joinPath("agent", "settings.json")))

PROJECT_SETTINGS_RELATIVE_PATH == ".pi/settings.json"

getSettingsPath(cwd, scope) ==
    IF scope = "global" THEN GLOBAL_SETTINGS_PATH
    ELSE joinPath(cwd, PROJECT_SETTINGS_RELATIVE_PATH)

\* the directories pi is started in: a project and the home directory
StartupCwds == {"/w", homedir}

SettingsPaths ==
    {GLOBAL_SETTINGS_PATH} \cup {getSettingsPath(c, "project") : c \in StartupCwds}

\* a JSON value at the key startupModel: absent, a string, or an object with
\* model and thinkingLevel (Null for a key the object does not have)
NoValue == [type |-> "undefined", model |-> Null, thinkingLevel |-> Null]

\* a settings file: absent, not JSON, or a JSON object with startupModel and
\* with the other settings of pi (here its theme; "" for none)
Absent == [kind |-> "absent", startupModel |-> NoValue, theme |-> ""]

\* ctx.model is undefined
NoModel == [provider |-> "", id |-> ""]

StartupAtLoad ==
    [files |-> [p \in SettingsPaths |-> Absent], cwd |-> "/w", model |-> NoModel,
     thinkingLevel |-> "off", writable |-> TRUE, notified |-> Null, status |-> Null]

\* part_000:130-141: the closure state of the footer plugin when it is
\* loaded; timers is the host's set of live interval timers, created the
\* number of timers made so far, tick the status entry "myway-footer-tick"
\* an optional number: undefined, or a number n
Undefined == <<>>

Num(n) == <<n>>

FooterAtLoad ==
    [activeModel |-> "no-model", interactionStartedAtMs |-> Undefined,
     lastElapsedTenths |-> Undefined, interactionTimer |-> Undefined,
     tokenWidgetVisible |-> FALSE, tick |-> Undefined, hasUI |-> TRUE,
     timers |-> {}, created |-> 0, now |-> 0]

PluginsAtLoad ==
    /\ history = HistoryAtLoad
    /\ startup = StartupAtLoad
    /\ footer = FooterAtLoad

rootVars == <<rootDir, rootDirReal, rootInit, initPc, bwrapPath,
              gitDirReal, gitCommonDirReal, extraWritableDirs>>

\* the host: file system, git, UI, registered tools
Env == IF world <= Len(Worlds) THEN Worlds[world]
       ELSE IF world <= HardWorldBase THEN GitWorld(world - Len(Worlds) - 1)
       ELSE HardWorlds[world - HardWorldBase]

Modes == {"read-only", "read-write", "yolo"}

\* process.cwd() when the plugin is loaded
ProcessCwd == "/h/p"

\* values of the --sandbox-mode flag
InitialFlags == {Null, "ro", "yolo"}

\* directories pi is started in: a symlink to /h/p, and a plain directory
Cwds == {"/w", "/e"}

MarkerRO == "[pi-sandbox:read-only]"

NoOut == [status |-> "none", text |-> "", canon |-> "", command |-> "", runCwd |-> ""]

AgentIdle == [kind |-> "idle", pc |-> "idle", tool |-> "", arg |-> "", cwd |-> "",
              abs |-> "", cur |-> "", modeSeen |-> "", out |-> NoOut]

UserIdle == [kind |-> "idle", pc |-> "idle", arg |-> "", note |-> "", level |-> ""]

Init ==
    /\ PluginsAtLoad
    /\ world \in 1..Len(Worlds)
    /\ ctxCwd \in Cwds
    /\ activeTools = Worlds[world].activeTools
    /\ \E flag \in InitialFlags :
          mode = IF normalizeMode(flag) # Null THEN normalizeMode(flag) ELSE "read-write"
    /\ rootDir = ProcessCwd
    /\ rootDirReal = ProcessCwd
    /\ rootInit = "unset"
    /\ initPc = "none"
    /\ bwrapPath = Null
    /\ gitDirReal = Null
    /\ gitCommonDirReal = Null
    /\ extraWritableDirs = <<>>
    /\ status = Null
    /\ agent = AgentIdle
    /\ user = UserIdle

\* A handler's result goes to the host the moment the handler returns: no
\* other handler code runs between a return and the host taking the result.
ResultTaken == agent.pc # "done" /\ user.pc # "done"

(***************************************************************************)
(* ensureRoot                                                              *)
(***************************************************************************)
\* as ensureRootEnter, taking rootDir from every caller
ensureRootEnter_Rebase(cwd) ==
    IF rootInit = "unset"
    THEN /\ rootDir' = cwd
         /\ rootInit' = "pending"
         /\ initPc' = "realpath"
         /\ UNCHANGED <<rootDirReal, bwrapPath, gitDirReal, gitCommonDirReal,
                        extraWritableDirs>>
    ELSE /\ rootDir' = cwd
         /\ UNCHANGED <<rootDirReal, rootInit, initPc, bwrapPath, gitDirReal,
                        gitCommonDirReal, extraWritableDirs>>

\* as ensureRootEnter, starting a pass whenever none has completed yet
ensureRootEnter_Unguarded(cwd) ==
    IF rootInit # "resolved"
    THEN /\ rootDir' = cwd
         /\ rootInit' = "pending"
         /\ initPc' = "realpath"
         /\ UNCHANGED <<rootDirReal, bwrapPath, gitDirReal, gitCommonDirReal,
                        extraWritableDirs>>
    ELSE UNCHANGED rootVars

\* the synchronous part: the first caller fixes rootDir and starts the pass
ensureRootEnter(cwd) ==
    IF rootInit = "unset"
    THEN /\ rootDir' = cwd
         /\ rootInit' = "pending"
         /\ initPc' = "realpath"
         /\ UNCHANGED <<rootDirReal, bwrapPath, gitDirReal, gitCommonDirReal,
                        extraWritableDirs>>
    ELSE UNCHANGED rootVars

\* rootDirReal = await realpath(rootDir), or rootDir when that throws
InitRealpath ==
    /\ UNCHANGED pluginVars
    /\ ResultTaken
    /\ rootInit = "pending" /\ initPc = "realpath"
    /\ rootDirReal' = realpathOr(Env.fs, rootDir)
    /\ initPc' = "bwrap"
    /\ UNCHANGED <<world, ctxCwd, mode, rootDir, rootInit, bwrapPath, gitDirReal,
                   gitCommonDirReal, extraWritableDirs, activeTools, status,
                   agent, user>>

\* bwrapPath = await findBwrapStrict()
InitBwrap ==
    /\ UNCHANGED pluginVars
    /\ ResultTaken
    /\ rootInit = "pending" /\ initPc = "bwrap"
    /\ bwrapPath' = findBwrapStrict(Env.fs)
    /\ initPc' = "git"
    /\ UNCHANGED <<world, ctxCwd, mode, rootDir, rootDirReal, rootInit, gitDirReal,
                   gitCommonDirReal, extraWritableDirs, activeTools, status,
                   agent, user>>

\* the git block; the pass ends and rootInit resolves
InitGit ==
    /\ UNCHANGED pluginVars
    /\ ResultTaken
    /\ rootInit = "pending" /\ initPc = "git"
    /\ LET g == detectGit(Env.fs, Env.git, rootDirReal)
       IN  /\ gitDirReal' = g.gitDirReal
           /\ gitCommonDirReal' = g.gitCommonDirReal
           /\ extraWritableDirs' = g.extras
    /\ initPc' = "done"
    /\ rootInit' = "resolved"
    /\ UNCHANGED <<world, ctxCwd, mode, rootDir, rootDirReal, bwrapPath, activeTools,
                   status, agent, user>>

(***************************************************************************)
(* Mode changes                                                            *)
(***************************************************************************)
Has(seq, v) == \E i \in 1..Len(seq) : seq[i] = v

NotEditWrite(t) == t # "edit" /\ t # "write"

\* as updateActiveToolsForMode, hiding edit only
updateActiveToolsForMode_KeepWrite(m, current, all) ==
    LET withoutEdit == SelectSeq(current, LAMBDA t : t # "edit")
        withEdit == IF Has(all, "edit") /\ ~Has(withoutEdit, "edit")
                    THEN Append(withoutEdit, "edit") ELSE withoutEdit
        next     == IF Has(all, "write") /\ ~Has(withEdit, "write")
                    THEN Append(withEdit, "write") ELSE withEdit
    IN  IF m = "read-only" THEN withoutEdit ELSE next

updateActiveToolsForMode(m, current, all) ==
    LET withoutEditWrite == SelectSeq(current, NotEditWrite)
        withEdit == IF Has(all, "edit") /\ ~Has(withoutEditWrite, "edit")
                    THEN Append(withoutEditWrite, "edit") ELSE withoutEditWrite
        next     == IF Has(all, "write") /\ ~Has(withEdit, "write")
                    THEN Append(withEdit, "write") ELSE withEdit
    IN  IF m = "read-only" THEN withoutEditWrite ELSE next

statusText(m) == "sandbox: " \o (IF m = "yolo" THEN "(no restrictions)" ELSE m)

\* setMode(next, ctx)
setMode(next) ==
    /\ mode' = next
    /\ activeTools' = updateActiveToolsForMode(next, activeTools, Env.allTools)
    /\ status' = IF Env.hasUI THEN statusText(next) ELSE status

RECURSIVE JoinWith(_, _)
JoinWith(lines, d) ==
    IF lines = <<>> THEN ""
    ELSE IF Len(lines) = 1 THEN lines[1]
    ELSE lines[1] \o d \o JoinWith(Tail(lines), d)

gitLine(dir) == "- " \o dir \o sep \o "** (git metadata)"

buildWriteAccessLines(m) ==
    IF m = "read-only" THEN <<"- none (read-only mode)">>
    ELSE IF m = "read-write"
    THEN <<"- " \o rootDirReal \o sep \o "**">>
         \o (IF Truthy(bwrapPath) THEN <<"- /tmp">> ELSE <<>>)
         \o [i \in 1..Len(extraWritableDirs) |-> gitLine(extraWritableDirs[i])]
    ELSE <<"- unrestricted (full host write access)">>

sandboxBanner(m) ==
    JoinWith(<<"[Sandbox]", "mode: " \o m, "write access:">>
             \o buildWriteAccessLines(m), "\n")

(***************************************************************************)
(* Host and user handlers: session_start, /sandbox-mode, ctrl+x,           *)
(* before_agent_start.  Each starts with "await ensureRoot(ctx)".          *)
(***************************************************************************)
UserWaiting(kind, arg) ==
    [kind |-> kind, pc |-> "ensureRoot", arg |-> arg, note |-> "", level |-> ""]

UserDone(note, level) ==
    [kind |-> user.kind, pc |-> "done", arg |-> "", note |-> note, level |-> level]

UserResumes(kind) ==
    ResultTaken /\ user.kind = kind /\ user.pc = "ensureRoot" /\ rootInit = "resolved"

\* arguments typed after /sandbox-mode (Null: none given)
CommandArgs == {Null, "ro", " Read-Write ", "rw,yolo"}

SelectChoices == {"read-only", "read-write", "yolo", Null}

\* system prompts handed to before_agent_start
SystemPrompts == {"You are pi.", "You are pi. " \o MarkerRO \o " ..."}

ReadOnlyNotice ==
    " You are operating under pi-sandbox in READ-ONLY mode. "
    \o "Do not attempt to modify files. The edit/write tools are unavailable and any write/edit attempts will be blocked. "
    \o "Only perform read-only inspection and provide recommendations without applying changes."

includes(s, sub) ==
    \E i \in 1..(Len(s) - Len(sub) + 1) : SubSeq(s, i, i + Len(sub) - 1) = sub

\* a handler is invoked and runs up to its "await ensureRoot(ctx)"
UserStart(kind, arg) ==
    /\ user' = UserWaiting(kind, arg)
    /\ ensureRootEnter(ctxCwd)
    /\ UNCHANGED <<world, ctxCwd, mode, activeTools, status, agent>>

SessionStart ==
    /\ UNCHANGED pluginVars
    /\ ResultTaken /\ user = UserIdle
    /\ UserStart("session_start", "")

SessionStartRun ==
    /\ UNCHANGED pluginVars
    /\ UserResumes("session_start")
    /\ setMode(mode)
    /\ user' = IF Env.hasUI THEN UserDone(sandboxBanner(mode), "info")
               ELSE UserDone("", "")
    /\ UNCHANGED <<world, ctxCwd, rootVars, agent>>

Command ==
    /\ UNCHANGED pluginVars
    /\ ResultTaken /\ user = UserIdle
    /\ \E arg \in CommandArgs : UserStart("command", arg)

\* as commandApply, falling back to read-write on an unknown mode
commandApply_Fallback(requested) ==
    LET next == IF normalizeMode(requested) = Null THEN "read-write"
                ELSE normalizeMode(requested)
    IN  /\ setMode(next)
        /\ user' = UserDone("pi-sandbox mode: " \o next, "info")

\* the tail of the command handler, from normalizeMode on
commandApply(requested) ==
    LET next == normalizeMode(requested)
    IN  IF next = Null
        THEN /\ user' = UserDone("Unknown mode: " \o requested
                                 \o ". Use: read-only | read-write | yolo", "error")
             /\ UNCHANGED <<mode, activeTools, status>>
        ELSE /\ setMode(next)
             /\ user' = UserDone("pi-sandbox mode: " \o next, "info")

CommandRun ==
    /\ UNCHANGED pluginVars
    /\ UserResumes("command")
    /\ LET requested == IF user.arg = Null THEN Null ELSE trim(user.arg)
       IN  IF ~Truthy(requested)
           THEN /\ user' = IF ~Env.hasUI
                           THEN UserDone("Current mode: " \o mode, "info")
                           ELSE [user EXCEPT !.pc = "select"]
                /\ UNCHANGED <<mode, activeTools, status>>
           ELSE commandApply(requested)
    /\ UNCHANGED <<world, ctxCwd, rootVars, agent>>

\* ctx.ui.select resolves with the user's choice, or undefined on cancel
CommandSelect ==
    /\ UNCHANGED pluginVars
    /\ ResultTaken
    /\ user.kind = "command" /\ user.pc = "select"
    /\ \E choice \in SelectChoices :
          IF ~Truthy(choice)
          THEN /\ user' = UserDone("", "")
               /\ UNCHANGED <<mode, activeTools, status>>
          ELSE commandApply(choice)
    /\ UNCHANGED <<world, ctxCwd, rootVars, agent>>

Shortcut ==
    /\ UNCHANGED pluginVars
    /\ ResultTaken /\ user = UserIdle
    /\ UserStart("shortcut", "")

\* as cycleMode, stepping back from read-write to read-only
cycleMode_Back(m) ==
    IF m = "read-only" THEN "read-write" ELSE "read-only"

cycleMode(m) ==
    IF m = "read-only" THEN "read-write"
    ELSE IF m = "read-write" THEN "yolo"
    ELSE "read-only"

ShortcutRun ==
    /\ UNCHANGED pluginVars
    /\ UserResumes("shortcut")
    /\ LET next == cycleMode(mode)
       IN  /\ setMode(next)
           /\ user' = IF next = "read-write" /\ Env.hasUI
                      THEN UserDone(sandboxBanner(next), "info")
                      ELSE UserDone("pi-sandbox mode: " \o next, "info")
    /\ UNCHANGED <<world, ctxCwd, rootVars, agent>>

BeforeAgentStart ==
    /\ UNCHANGED pluginVars
    /\ ResultTaken /\ user = UserIdle
    /\ \E prompt \in SystemPrompts : UserStart("before_agent_start", prompt)

\* note: the system prompt the handler returns, "" when it returns nothing
BeforeAgentStartRun ==
    /\ UNCHANGED pluginVars
    /\ UserResumes("before_agent_start")
    /\ user' = IF mode # "read-only" \/ includes(user.arg, MarkerRO)
               THEN UserDone("", "")
               ELSE UserDone(user.arg \o "\n\n" \o MarkerRO
                             \o ReadOnlyNotice,
                             "systemPrompt")
    /\ UNCHANGED <<world, ctxCwd, mode, rootVars, activeTools, status, agent>>

\* the host takes the handler's result
UserReturn ==
    /\ UNCHANGED pluginVars
    /\ user.pc = "done"
    /\ user' = UserIdle
    /\ UNCHANGED <<world, ctxCwd, mode, rootVars, activeTools, status, agent>>

(***************************************************************************)
(* tool_call interception (write / edit enforcement)                       *)
(***************************************************************************)
\* tools the agent calls through the tool_call hook
Tools == {"write", "edit", "read"}

\* the hook never looks at the input of a tool other than write and edit
OtherToolPaths == {"f"}

\* "~/" and "@~/" requests are built from these suffixes
HomeSuffixes == {"p/f", "../e/f", "p/k"}

PlainPaths ==
    {"", "f", "..x",
     "/h/p", "/h/p/n/x", "/h/p/../../e/f", "/h/pq", "/e/f",
     "/h/p/l/x", "/h/p/m", "/h/p/k", "/tmp/x", "/g/x"}

\* event.input.path
RequestPaths ==
    PlainPaths \cup {"~/" \o x : x \in HomeSuffixes} \cup {"@~/" \o x : x \in HomeSuffixes}

AgentWaiting(kind, tool, arg, cwd) ==
    [AgentIdle EXCEPT !.kind = kind, !.pc = "ensureRoot", !.tool = tool,
                      !.arg = arg, !.cwd = cwd]

AgentResumes(kind) ==
    ResultTaken /\ agent.kind = kind /\ agent.pc = "ensureRoot" /\ rootInit = "resolved"

AgentDone(m, out) == [agent EXCEPT !.pc = "done", !.modeSeen = m, !.out = out]

Allow == [NoOut EXCEPT !.status = "allow"]

Block(reason, canon) ==
    [NoOut EXCEPT !.status = "block", !.text = reason, !.canon = canon]

ToolCall ==
    /\ UNCHANGED pluginVars
    /\ ResultTaken /\ agent = AgentIdle
    /\ \E tool \in Tools :
         \E path \in (IF tool \in {"write", "edit"} THEN RequestPaths ELSE OtherToolPaths) :
            agent' = AgentWaiting("tool_call", tool, path, ctxCwd)
    /\ ensureRootEnter(ctxCwd)
    /\ UNCHANGED <<world, ctxCwd, mode, activeTools, status, user>>

\* as toolCallGate, without the early return of yolo mode
toolCallGate_NoYolo(m, tool) ==
    IF tool \notin {"write", "edit"} THEN "pass"
    ELSE IF m = "read-only" THEN "block"
    ELSE "check"

\* as toolCallGate, with the read-only test missing from the edit branch
toolCallGate_EditUnchecked(m, tool) ==
    IF m = "yolo" THEN "pass"
    ELSE IF tool \notin {"write", "edit"} THEN "pass"
    ELSE IF m = "read-only" /\ tool = "write" THEN "block"
    ELSE "check"

\* the mode tests of the handler: "pass" (return undefined), "block", or
\* "check" (go on to the boundary test)
toolCallGate(m, tool) ==
    IF m = "yolo" THEN "pass"
    ELSE IF tool \notin {"write", "edit"} THEN "pass"
    ELSE IF m = "read-only" THEN "block"
    ELSE "check"

\* after ensureRoot: the mode tests, then resolve() and the first stat
ToolCallCheck ==
    /\ UNCHANGED pluginVars
    /\ AgentResumes("tool_call")
    /\ agent' =
         LET gate == toolCallGate(mode, agent.tool)
         IN  IF gate = "pass" THEN AgentDone(mode, Allow)
             ELSE IF gate = "block"
             THEN AgentDone(mode, Block("pi-sandbox is in read-only mode ("
                                        \o agent.tool \o " blocked).", ""))
             ELSE LET abs == resolve(agent.cwd, expandUserPath(agent.arg))
                  IN  [agent EXCEPT !.pc = "canon", !.modeSeen = mode,
                                    !.abs = abs, !.cur = abs]
    /\ UNCHANGED <<world, ctxCwd, mode, rootVars, activeTools, status, user>>

\* as denyReason, without the resolved path
denyReason_NoResolved(tool, requested, canon) ==
    (IF tool = "write" THEN "Writes" ELSE "Edits")
    \o " are only allowed under: " \o rootDirReal
    \o "\nRequested: " \o requested

denyReason(tool, requested, canon) ==
    (IF tool = "write" THEN "Writes" ELSE "Edits")
    \o " are only allowed under: " \o rootDirReal
    \o "\nRequested: " \o requested \o "\nResolved: " \o canon

\* as writeAllowed, also accepting the extra writable directories
writeAllowed_Extras(canon) ==
    \/ isPathInsideRoot(rootDirReal, canon)
    \/ \E i \in 1..Len(extraWritableDirs) : isPathInsideRoot(extraWritableDirs[i], canon)

\* as writeAllowed, also accepting the temporary directory
writeAllowed_Tmp(canon) ==
    isPathInsideRoot(rootDirReal, canon) \/ isPathInsideRoot("/tmp", canon)

\* const allowed = isPathInsideRoot(rootDirReal, canon)
writeAllowed(canon) == isPathInsideRoot(rootDirReal, canon)

\* one iteration of canonicalizePossiblyMissingPath; when it returns, the
\* boundary test and the handler's result
ToolCallCanon ==
    /\ UNCHANGED pluginVars
    /\ ResultTaken
    /\ agent.kind = "tool_call" /\ agent.pc = "canon"
    /\ LET step == canonicalizeStep(Env.fs, agent.cur, agent.abs)
       IN  agent' =
             IF ~step.done THEN [agent EXCEPT !.cur = step.value]
             ELSE LET canon == step.value
                  IN  IF writeAllowed(canon)
                      THEN AgentDone(agent.modeSeen, [Allow EXCEPT !.canon = canon])
                      ELSE AgentDone(agent.modeSeen,
                                     Block(denyReason(agent.tool, agent.arg, canon), canon))
    /\ UNCHANGED <<world, ctxCwd, mode, rootVars, activeTools, status, user>>

(***************************************************************************)
(* The bash override                                                       *)
(***************************************************************************)
\* params.command
UserCommands == {"ls", "echo 'a b' > /tmp/x; rm -rf ~"}

\* as bwrapArgs, without the binds of the extra writable directories
bwrapArgs_NoExtras(m, userCommand, cwd) ==
    <<bwrapPath, "--die-with-parent", "--proc", "/proc",
      "--ro-bind", "/", "/",
      "--tmpfs", "/dev",
      "--dev-bind", "/dev/null", "/dev/null",
      "--dev-bind", "/dev/zero", "/dev/zero",
      "--dev-bind", "/dev/random", "/dev/random",
      "--dev-bind", "/dev/urandom", "/dev/urandom",
      "--dev-bind", "/dev/tty", "/dev/tty",
      "--symlink", "/proc/self/fd", "/dev/fd",
      "--symlink", "/proc/self/fd/0", "/dev/stdin",
      "--symlink", "/proc/self/fd/1", "/dev/stdout",
      "--symlink", "/proc/self/fd/2", "/dev/stderr",
      "--chdir", cwd>>
    \o (IF m = "read-write"
        THEN <<"--bind", rootDirReal, rootDirReal>>
             \o <<"--bind", "/tmp", "/tmp">>
        ELSE <<>>)
    \o <<"--", "bash", "-c", userCommand>>

\* the argv built by buildBwrapCommand when the mode it reads is m
bwrapArgs(m, userCommand, cwd) ==
    <<bwrapPath, "--die-with-parent", "--proc", "/proc",
      "--ro-bind", "/", "/",
      "--tmpfs", "/dev",
      "--dev-bind", "/dev/null", "/dev/null",
      "--dev-bind", "/dev/zero", "/dev/zero",
      "--dev-bind", "/dev/random", "/dev/random",
      "--dev-bind", "/dev/urandom", "/dev/urandom",
      "--dev-bind", "/dev/tty", "/dev/tty",
      "--symlink", "/proc/self/fd", "/dev/fd",
      "--symlink", "/proc/self/fd/0", "/dev/stdin",
      "--symlink", "/proc/self/fd/1", "/dev/stdout",
      "--symlink", "/proc/self/fd/2", "/dev/stderr",
      "--chdir", cwd>>
    \o (IF m = "read-write"
        THEN <<"--bind", rootDirReal, rootDirReal>>
             \o [i \in 1..(3 * Len(extraWritableDirs)) |->
                    IF i % 3 = 1 THEN "--bind"
                    ELSE extraWritableDirs[(i + 2) \div 3]]
             \o <<"--bind", "/tmp", "/tmp">>
        ELSE <<>>)
    \o <<"--", "bash", "-c", userCommand>>

buildBwrapCommand(userCommand, cwd) ==
    IF ~Truthy(bwrapPath) THEN ""
    ELSE LET args == bwrapArgs(mode, userCommand, cwd)
         IN  JoinWith([i \in 1..Len(args) |-> shellEscapeSingle(args[i])], " ")

BlockedBashText ==
    "Blocked bash command: bubblewrap (bwrap) is not available, so pi-sandbox cannot safely sandbox bash.\n\n"
    \o "Install bubblewrap (bwrap) or switch to /sandbox-mode yolo (not recommended)."

\* delegate.execute(toolCallId, {command}, ...) of createBashTool(cwd)
Delegate(command, cwd) ==
    [NoOut EXCEPT !.status = "delegated", !.command = command, !.runCwd = cwd]

Bash ==
    /\ UNCHANGED pluginVars
    /\ ResultTaken /\ agent = AgentIdle
    /\ \E command \in UserCommands :
         agent' = AgentWaiting("bash", "bash", command, ctxCwd)
    /\ ensureRootEnter(ctxCwd)
    /\ UNCHANGED <<world, ctxCwd, mode, activeTools, status, user>>

\* as bashExecute, confining the command in yolo mode as well
bashExecute_YoloConfined(userCommand, cwd) ==
    IF ~Truthy(bwrapPath)
    THEN [NoOut EXCEPT !.status = "blocked", !.text = BlockedBashText]
    ELSE Delegate(buildBwrapCommand(userCommand, cwd), cwd)

\* as bashExecute, falling back to the plain command when bwrap is missing
bashExecute_Fallback(userCommand, cwd) ==
    IF mode # "yolo" /\ Truthy(bwrapPath)
    THEN Delegate(buildBwrapCommand(userCommand, cwd), cwd)
    ELSE Delegate(userCommand, cwd)

\* as bashExecute, handing the delegate params instead of the wrapped command
bashExecute_Unwrapped(userCommand, cwd) ==
    IF mode # "yolo" /\ ~Truthy(bwrapPath)
    THEN [NoOut EXCEPT !.status = "blocked", !.text = BlockedBashText]
    ELSE Delegate(userCommand, cwd)

\* what execute() does once ensureRoot has returned
bashExecute(userCommand, cwd) ==
    IF mode # "yolo"
    THEN IF ~Truthy(bwrapPath)
         THEN [NoOut EXCEPT !.status = "blocked", !.text = BlockedBashText]
         ELSE Delegate(buildBwrapCommand(userCommand, cwd), cwd)
    ELSE Delegate(userCommand, cwd)

BashRun ==
    /\ UNCHANGED pluginVars
    /\ AgentResumes("bash")
    /\ agent' = AgentDone(mode, bashExecute(agent.arg, agent.cwd))
    /\ UNCHANGED <<world, ctxCwd, mode, rootVars, activeTools, status, user>>

\* the host takes the tool handler's result
AgentReturn ==
    /\ UNCHANGED pluginVars
    /\ agent.pc = "done"
    /\ agent' = AgentIdle
    /\ UNCHANGED <<world, ctxCwd, mode, rootVars, activeTools, status, user>>

Next ==
    \/ InitRealpath \/ InitBwrap \/ InitGit
    \/ SessionStart \/ SessionStartRun
    \/ Command \/ CommandRun \/ CommandSelect
    \/ Shortcut \/ ShortcutRun
    \/ BeforeAgentStart \/ BeforeAgentStartRun
    \/ UserReturn
    \/ ToolCall \/ ToolCallCheck \/ ToolCallCanon
    \/ Bash \/ BashRun
    \/ AgentReturn

Spec == Init /\ [][Next]_vars

(***************************************************************************)
(* Sessions for version-control discovery: pi starts in one of the         *)
(* GitWorlds; session_start and bash calls arrive, in read-write or        *)
(* read-only mode.                                                         *)
(***************************************************************************)
DiscoveryFlags == {Null, "ro"}

DiscoveryInit ==
    /\ PluginsAtLoad
    /\ world \in GitWorldIds
    /\ ctxCwd \in Cwds
    /\ activeTools = StockTools
    /\ \E flag \in DiscoveryFlags :
          mode = IF normalizeMode(flag) # Null THEN normalizeMode(flag) ELSE "read-write"
    /\ rootDir = ProcessCwd
    /\ rootDirReal = ProcessCwd
    /\ rootInit = "unset"
    /\ initPc = "none"
    /\ bwrapPath = Null
    /\ gitDirReal = Null
    /\ gitCommonDirReal = Null
    /\ extraWritableDirs = <<>>
    /\ status = Null
    /\ agent = AgentIdle
    /\ user = UserIdle

DiscoveryNext ==
    \/ InitRealpath \/ InitBwrap \/ InitGit
    \/ SessionStart \/ SessionStartRun
    \/ UserReturn
    \/ Bash \/ BashRun
    \/ AgentReturn

DiscoverySpec == DiscoveryInit /\ [][DiscoveryNext]_vars

(***************************************************************************)
(* Sessions in which the host hands later handlers a different ctx.cwd     *)
(* than the one the session started with, in the linked worktree.          *)
(***************************************************************************)
MovingWorlds == {3}

MovingInit == Init /\ world \in MovingWorlds

\* the host's working directory changes; handlers in flight keep their ctx
CwdChanges ==
    /\ UNCHANGED pluginVars
    /\ ResultTaken
    /\ \E c \in Cwds \ {ctxCwd} : ctxCwd' = c
    /\ UNCHANGED <<world, mode, rootVars, activeTools, status, agent, user>>

MovingNext ==
    \/ InitRealpath \/ InitBwrap \/ InitGit
    \/ SessionStart \/ SessionStartRun
    \/ UserReturn
    \/ ToolCall \/ ToolCallCheck \/ ToolCallCanon
    \/ Bash \/ BashRun
    \/ AgentReturn
    \/ CwdChanges

MovingSpec == MovingInit /\ [][MovingNext]_vars

(***************************************************************************)
(* Sessions for command quoting: the discovery pass has completed in a     *)
(* session with bwrap installed, and bash is called with every short       *)
(* command over an alphabet with a quote, a blank, a backslash and shell   *)
(* metacharacters.                                                         *)
(***************************************************************************)
MaxCommandLen == 3

CommandChars == {"a", " ", "'", "\\", ";"}

RECURSIVE CommandsUpTo(_)
CommandsUpTo(n) ==
    IF n = 0 THEN {""}
    ELSE CommandsUpTo(n - 1)
         \cup {s \o c : s \in CommandsUpTo(n - 1), c \in CommandChars}

\* params.command
TypedCommands == CommandsUpTo(MaxCommandLen)

\* the linked worktree, where bwrap is installed
QuotingWorlds == {3}

QuotingInit ==
    /\ PluginsAtLoad
    /\ world \in QuotingWorlds
    /\ ctxCwd = "/w"
    /\ activeTools = Worlds[world].activeTools
    /\ \E flag \in DiscoveryFlags :
          mode = IF normalizeMode(flag) # Null THEN normalizeMode(flag) ELSE "read-write"
    /\ rootDir = ctxCwd
    /\ rootDirReal = realpathOr(Worlds[world].fs, ctxCwd)
    /\ rootInit = "resolved"
    /\ initPc = "done"
    /\ bwrapPath = findBwrapStrict(Worlds[world].fs)
    /\ LET g == detectGit(Worlds[world].fs, Worlds[world].git, rootDirReal)
       IN  /\ gitDirReal = g.gitDirReal
           /\ gitCommonDirReal = g.gitCommonDirReal
           /\ extraWritableDirs = g.extras
    /\ status = Null
    /\ agent = AgentIdle
    /\ user = UserIdle

BashTyped ==
    /\ UNCHANGED pluginVars
    /\ ResultTaken /\ agent = AgentIdle
    /\ \E command \in TypedCommands :
         agent' = AgentWaiting("bash", "bash", command, ctxCwd)
    /\ ensureRootEnter(ctxCwd)
    /\ UNCHANGED <<world, ctxCwd, mode, activeTools, status, user>>

QuotingNext == BashTyped \/ BashRun \/ AgentReturn

QuotingSpec == QuotingInit /\ [][QuotingNext]_vars

(***************************************************************************)
(* Sessions for path canonicalization: discovery has completed in          *)
(* read-write mode in one of the HardWorlds, and write/edit calls arrive.  *)
(***************************************************************************)
CanonInit ==
    /\ PluginsAtLoad
    /\ world \in HardWorldIds
    /\ ctxCwd \in Cwds
    /\ activeTools = StockTools
    /\ mode = "read-write"
    /\ rootDir = ctxCwd
    /\ rootDirReal = realpathOr(HardWorlds[world - HardWorldBase].fs, ctxCwd)
    /\ rootInit = "resolved"
    /\ initPc = "done"
    /\ bwrapPath = findBwrapStrict(HardWorlds[world - HardWorldBase].fs)
    /\ gitDirReal = Null
    /\ gitCommonDirReal = Null
    /\ extraWritableDirs = <<>>
    /\ status = Null
    /\ agent = AgentIdle
    /\ user = UserIdle

CanonNext == ToolCall \/ ToolCallCheck \/ ToolCallCanon \/ AgentReturn

CanonSpec == CanonInit /\ [][CanonNext]_vars

(***************************************************************************)
\* p is dir or a descendant of dir (both absolute, compared by segments)
Inside(dir, p) ==
    LET d == PathSegs(dir)
        q == PathSegs(p)
    IN  Len(d) <= Len(q) /\ SubSeq(q, 1, Len(d)) = d

PrefixPath(segs, k) == "/" \o JoinSlash(SubSeq(segs, 1, k))

\* the longest prefix of abs that exists (stat succeeds), as a segment count
ExistingLen(f, abs) ==
    LET segs == PathSegs(abs)
    IN  CHOOSE k \in 0..Len(segs) :
            /\ StatOk(f, PrefixPath(segs, k))
            /\ \A j \in (k + 1)..Len(segs) : ~StatOk(f, PrefixPath(segs, j))

NearestExisting(f, abs) == PrefixPath(PathSegs(abs), ExistingLen(f, abs))

\* symlinks resolved in the nearest existing ancestor, the missing rest re-appended
CanonicalPath(f, abs) ==
    LET segs == PathSegs(abs)
        k    == ExistingLen(f, abs)
        real == realpath(f, PrefixPath(segs, k))
    IN  (IF real = "/" THEN "" ELSE real)
        \o JoinSlash(<<"">> \o SubSeq(segs, k + 1, Len(segs)))
        \o (IF real = "/" /\ k = Len(segs) THEN "/" ELSE "")

WriteDone ==
    agent.kind = "tool_call" /\ agent.pc = "done" /\ agent.tool \in {"write", "edit"}

BashDone == agent.kind = "bash" /\ agent.pc = "done"

Denied  == agent.out.status = "block"
Allowed == agent.out.status = "allow"

\* the absolute path a finished write/edit request named
RequestedAbs == resolve(agent.cwd, expandUserPath(agent.arg))

\* the canonical path of a finished write/edit request
RequestedCanon == CanonicalPath(Env.fs, RequestedAbs)

InsideSomeExtra(p) ==
    \E i \in 1..Len(extraWritableDirs) : Inside(extraWritableDirs[i], p)

\* an executable regular file sits at one of the two trusted locations
BwrapInstalled ==
    \E c \in {"/usr/bin/bwrap", "/bin/bwrap"} :
        c \in DOMAIN Env.fs /\ Env.fs[c].kind = "file" /\ Env.fs[c].exec

endsWith(s, suf) ==
    Len(s) >= Len(suf) /\ SubSeq(s, Len(s) - Len(suf) + 1, Len(s)) = suf

\* The words a POSIX shell reads from a command line made of single-quoted
\* strings, backslash escapes and blanks: inside '...' every character is
\* literal up to the next quote, outside a backslash makes the next character
\* literal, and unquoted blanks separate words.
\* the position of the first quote of s at or after i; Len(s) + 1 if none
QuoteFrom(s, i) ==
    CHOOSE j \in i..(Len(s) + 1) :
        /\ j = Len(s) + 1 \/ CharAt(s, j) = "'"
        /\ \A k \in i..(j - 1) : CharAt(s, k) # "'"

\* the position of the first character of s at or after i that is not a blank
BlankEnd(s, i) ==
    CHOOSE j \in i..(Len(s) + 1) :
        /\ j = Len(s) + 1 \/ CharAt(s, j) # " "
        /\ \A k \in i..(j - 1) : CharAt(s, k) = " "

\* the position after the word that starts at i
RECURSIVE WordEnd(_, _)
WordEnd(s, i) ==
    IF i > Len(s) THEN Len(s) + 1
    ELSE IF CharAt(s, i) = " " THEN i
    ELSE IF CharAt(s, i) = "'" THEN WordEnd(s, QuoteFrom(s, i + 1) + 1)
    ELSE IF CharAt(s, i) = "\\" THEN WordEnd(s, i + 2)
    ELSE WordEnd(s, i + 1)

\* the text of the word that occupies positions i .. e - 1
RECURSIVE WordText(_, _, _)
WordText(s, i, e) ==
    IF i >= e THEN ""
    ELSE IF CharAt(s, i) = "'"
         THEN SubSeq(s, i + 1, QuoteFrom(s, i + 1) - 1)
              \o WordText(s, QuoteFrom(s, i + 1) + 1, e)
    ELSE IF CharAt(s, i) = "\\" THEN CharAt(s, i + 1) \o WordText(s, i + 2, e)
    ELSE CharAt(s, i) \o WordText(s, i + 1, e)

\* the positions where the words of s start
RECURSIVE WordStarts(_, _)
WordStarts(s, i) ==
    IF BlankEnd(s, i) > Len(s) THEN <<>>
    ELSE <<BlankEnd(s, i)>> \o WordStarts(s, WordEnd(s, BlankEnd(s, i)))

ShellWords(s) ==
    LET starts == WordStarts(s, 1)
    IN  [k \in 1..Len(starts) |-> WordText(s, starts[k], WordEnd(s, starts[k]))]

\* the words of a confined command that bwrap reads as its own options:
\* all but the closing "--", "bash", "-c", <command>
BwrapOptions(argv) == SubSeq(argv, 1, Len(argv) - 4)

\* the directories bwrap makes writable: the destinations of its --bind options
BindDirs(argv) ==
    LET o == BwrapOptions(argv)
    IN  {o[i + 2] : i \in {j \in 1..(Len(o) - 2) : o[j] = "--bind"}}

\* bwrap option names that mount nothing writable from the host
ReadOnlyOptions ==
    {"--die-with-parent", "--proc", "--ro-bind", "--tmpfs", "--dev-bind",
     "--symlink", "--chdir"}

SeqRange(q) == {q[i] : i \in 1..Len(q)}

\* a bash call that handed the runner a confined command
ConfinedDone == BashDone /\ agent.modeSeen # "yolo" /\ agent.out.status = "delegated"

(***************************************************************************)
(* Properties                                                              *)
(***************************************************************************)

\* C1: outside yolo, when no trusted bwrap executable exists, a finished bash
\* call has handed nothing to the underlying runner and carries the
\* "Blocked bash command" message, whatever mode changes came before.
C1_FailClosed ==
    (BashDone /\ agent.modeSeen # "yolo" /\ ~BwrapInstalled)
        => /\ agent.out.status = "blocked"
           /\ agent.out.command = ""
           /\ startsWith(agent.out.text, "Blocked bash command: bubblewrap (bwrap) is not available")

\* a bash call blocked in read-write mode after the mode had been changed
C1_Witness ==
    /\ BashDone /\ agent.modeSeen = "read-write" /\ ~BwrapInstalled
    /\ agent.out.status = "blocked"
    /\ status = "sandbox: read-write"

\* C2: outside yolo, a command that reaches the runner is the bwrap
\* invocation built for the mode the override saw: it starts with the quoted
\* bwrap path, ends with 'bash' '-c' and the quoted user command, has
\* read-write binds exactly in read-write mode, and is never the raw command.
C2_RunsConfined ==
    (BashDone /\ agent.modeSeen # "yolo" /\ agent.out.status = "delegated")
        => /\ agent.out.command # agent.arg
           /\ startsWith(agent.out.command, "'" \o bwrapPath \o "' '--die-with-parent' ")
           /\ endsWith(agent.out.command,
                       " '--' 'bash' '-c' " \o shellEscapeSingle(agent.arg))
           /\ includes(agent.out.command, " '--ro-bind' '/' '/' ")
           /\ includes(agent.out.command, " '--bind' ") <=> agent.modeSeen = "read-write"

C2_Witness ==
    /\ BashDone /\ agent.modeSeen = "read-only" /\ agent.out.status = "delegated"
    /\ agent.arg = "ls"

\* C3: a write or edit request whose handler saw read-only mode is blocked,
\* whatever the path and working directory.
C3_ReadOnlyBlocks ==
    (WriteDone /\ agent.modeSeen = "read-only") => Denied

\* an edit of the root directory's own file, blocked in read-only mode
C3_Witness ==
    /\ WriteDone /\ agent.modeSeen = "read-only" /\ agent.tool = "edit"
    /\ Inside(rootDirReal, RequestedCanon) /\ Denied

\* C4: in read-write mode a request whose canonical path is outside Root and
\* outside every extra writable directory is denied.
C4_OutsideDenied ==
    (WriteDone /\ agent.modeSeen = "read-write"
        /\ ~Inside(rootDirReal, RequestedCanon)
        /\ ~InsideSomeExtra(RequestedCanon))
        => Denied

\* Root/../../e/f resolves outside Root and is denied
C4_Witness ==
    /\ WriteDone /\ agent.modeSeen = "read-write" /\ rootDirReal = "/h/p"
    /\ agent.arg = "/h/p/../../e/f" /\ agent.out.canon = "/e/f" /\ Denied

\* C5: in read-write mode a request whose canonical path is Root or a
\* descendant of Root is allowed.
C5_InsideAllowed ==
    (WriteDone /\ agent.modeSeen = "read-write" /\ Inside(rootDirReal, RequestedCanon))
        => Allowed

\* a write to Root itself is allowed
C5_Witness ==
    /\ WriteDone /\ agent.modeSeen = "read-write"
    /\ RequestedCanon = rootDirReal /\ Allowed

\* the request goes through a symlink that sits inside Root and points
\* outside Root: it names the link, or the link is an ancestor directory of
\* a target that does not exist yet
ThroughEscapingLink ==
    LET segs == PathSegs(RequestedAbs)
    IN  \E k \in 1..Len(segs) :
          LET q == PrefixPath(segs, k)
          IN  /\ q \in DOMAIN Env.fs
              /\ Env.fs[q].kind = "link"
              /\ Inside(rootDirReal, q)
              /\ ~Inside(rootDirReal, Env.fs[q].target)
              /\ \/ k = Len(segs)
                 \/ /\ StatOk(Env.fs, q)
                    /\ stat(Env.fs, q).kind = "dir"
                    /\ ~StatOk(Env.fs, RequestedAbs)

\* C6: in read-write mode a request through a symlink inside Root whose
\* target lies outside Root is denied.
C6_SymlinkEscapeDenied ==
    (WriteDone /\ agent.modeSeen = "read-write" /\ ThroughEscapingLink) => Denied

\* C7: in read-write mode a request for a target that does not exist, whose
\* nearest existing ancestor canonicalizes into Root, is allowed, on the
\* ancestor's real path with the missing suffix re-appended.
C7_MissingTargetAllowed ==
    (WriteDone /\ agent.modeSeen = "read-write"
        /\ ~StatOk(Env.fs, RequestedAbs)
        /\ Inside(rootDirReal, realpath(Env.fs, NearestExisting(Env.fs, RequestedAbs))))
        => (Allowed /\ agent.out.canon = RequestedCanon)

\* Root/newdir/newfile with newdir missing, reached through a symlinked cwd
C7_Witness ==
    /\ WriteDone /\ agent.modeSeen = "read-write" /\ rootDirReal = "/h/p"
    /\ agent.arg = "/h/p/n/x" /\ NearestExisting(Env.fs, RequestedAbs) = "/h/p"
    /\ agent.out.canon = "/h/p/n/x" /\ Allowed

\* C8: "~/s" and "@~/s" both name s under the home directory: either request
\* is decided on the canonical path of home/s, so the two get the same
\* canonical path and the same decision (in read-only and yolo mode the
\* decision does not depend on the path at all).
C8_AtTildeSame ==
    \A x \in HomeSuffixes :
        (WriteDone /\ agent.arg \in {"~/" \o x, "@~/" \o x})
            => /\ agent.modeSeen = "read-only" => Denied
               /\ agent.modeSeen = "yolo" => Allowed
               /\ agent.modeSeen = "read-write" =>
                    /\ agent.out.canon = CanonicalPath(Env.fs, resolve(homedir, x))
                    /\ Allowed <=> Inside(rootDirReal, agent.out.canon)

\* "@~/../e/f" is denied on /e/f, as "~/../e/f" is
C8_Witness ==
    /\ WriteDone /\ agent.modeSeen = "read-write" /\ agent.arg = "@~/../e/f"
    /\ agent.out.canon = "/e/f" /\ Denied

\* C9 as claimed: in read-write mode a request is allowed iff its canonical
\* path is inside Root or inside an extra writable directory.
C9_AllowedIffRootOrExtra ==
    (WriteDone /\ agent.modeSeen = "read-write")
        => (Allowed <=> (Inside(rootDirReal, RequestedCanon) \/ InsideSomeExtra(RequestedCanon)))

\* C9 amended: in read-write mode a request is allowed iff its canonical path
\* is inside Root; a path inside an extra writable directory is denied.
C9_AllowedIffRoot ==
    (WriteDone /\ agent.modeSeen = "read-write")
        => /\ Allowed <=> Inside(rootDirReal, RequestedCanon)
           /\ Allowed \/ Denied

\* a write into the git common dir of a linked worktree is denied
C9_Witness ==
    /\ WriteDone /\ agent.modeSeen = "read-write" /\ agent.arg = "/g/x"
    /\ extraWritableDirs = <<"/g">> /\ InsideSomeExtra(RequestedCanon) /\ Denied

\* C10 as claimed: in read-write mode a request that resolves into the
\* temporary directory is allowed.
C10_TmpWritable ==
    (WriteDone /\ agent.modeSeen = "read-write" /\ Inside("/tmp", RequestedCanon))
        => Allowed

\* C10 amended: in read-write mode the confined bash command binds /tmp
\* read-write, but a write/edit request that resolves into /tmp and not
\* into Root is denied.
C10_TmpBashOnly ==
    /\ (WriteDone /\ agent.modeSeen = "read-write"
          /\ Inside("/tmp", RequestedCanon) /\ ~Inside(rootDirReal, RequestedCanon))
          => Denied
    /\ (BashDone /\ agent.modeSeen = "read-write" /\ agent.out.status = "delegated")
          => includes(agent.out.command, " '--bind' '/tmp' '/tmp' ")

\* /tmp/x is denied to the write tool in a session whose bash can write /tmp
C10_Witness ==
    /\ WriteDone /\ agent.modeSeen = "read-write" /\ agent.arg = "/tmp/x"
    /\ Truthy(bwrapPath) /\ Denied

\* C11: a write or edit request whose handler saw yolo mode is never blocked,
\* whatever the path: the handler returns nothing and looks at no path.
C11_YoloAllows ==
    (WriteDone /\ agent.modeSeen = "yolo") => (Allowed /\ agent.out.canon = "")

\* in yolo mode a write to a file outside Root goes through
C11_Witness ==
    /\ WriteDone /\ agent.modeSeen = "yolo" /\ agent.tool = "write"
    /\ ~Inside(rootDirReal, RequestedCanon) /\ Allowed

\* C12: a bash call whose override saw yolo mode hands the runner the
\* user's command unchanged, with pi's startup directory as working
\* directory, whether or not a bwrap executable was found.
C12_YoloUnconfined ==
    (BashDone /\ agent.modeSeen = "yolo")
        => /\ agent.out.status = "delegated"
           /\ agent.out.command = agent.arg
           /\ agent.out.runCwd = ctxCwd

\* a command with quotes run as it is in a session that has no bwrap
C12_Witness ==
    /\ BashDone /\ agent.modeSeen = "yolo" /\ ~BwrapInstalled
    /\ agent.arg = "echo 'a b' > /tmp/x; rm -rf ~"
    /\ agent.out.command = agent.arg

\* C13: the confined command binds exactly Root, every extra writable
\* directory and /tmp read-write (each at its own host path) when the
\* override saw read-write mode, and has no --bind at all when it saw
\* read-only mode: then its only mounts are the read-only bind of / and the
\* device overlay.
C13_BindsExactly ==
    ConfinedDone =>
        LET argv == ShellWords(agent.out.command)
            o    == BwrapOptions(argv)
        IN  /\ BindDirs(argv)
                  = (IF agent.modeSeen = "read-write"
                     THEN {rootDirReal, "/tmp"} \cup SeqRange(extraWritableDirs)
                     ELSE {})
            /\ \A i \in 1..(Len(o) - 2) : o[i] = "--bind" => o[i + 1] = o[i + 2]
            /\ \E i \in 1..(Len(o) - 2) :
                  o[i] = "--ro-bind" /\ o[i + 1] = "/" /\ o[i + 2] = "/"
            /\ agent.modeSeen = "read-only" =>
                  \A i \in 2..Len(o) : startsWith(o[i], "--") => o[i] \in ReadOnlyOptions

\* a linked worktree: Root, the git common dir outside Root, and /tmp
C13_Witness ==
    /\ ConfinedDone /\ agent.modeSeen = "read-write"
    /\ extraWritableDirs = <<"/g">>
    /\ BindDirs(ShellWords(agent.out.command)) = {"/h/p", "/g", "/tmp"}

\* C14: the confined command is single-quoted tokens joined by single
\* blanks; read back by the rules of POSIX shell quoting it is exactly the
\* argument list that was built, which ends with "bash", "-c" and the
\* user's command character for character.
C14_QuotingRoundTrip ==
    ConfinedDone =>
        LET argv == ShellWords(agent.out.command)
            n    == Len(argv)
        IN  /\ argv = bwrapArgs(agent.modeSeen, agent.arg, agent.cwd)
            /\ n >= 4
            /\ argv[n - 3] = "--" /\ argv[n - 2] = "bash" /\ argv[n - 1] = "-c"
            /\ argv[n] = agent.arg
            /\ startsWith(agent.out.command, "'") /\ endsWith(agent.out.command, "'")

\* a command made of a quote, a blank and a backslash
C14_Witness ==
    /\ ConfinedDone /\ agent.arg = "' \\"
    /\ ShellWords(agent.out.command)[Len(ShellWords(agent.out.command))] = "' \\"

\* the discovery pass of the session has completed
Discovered == rootInit = "resolved"

\* C15: after discovery no extra writable directory is inside Root, and none
\* is equal to or inside another one; when the git dir and the common dir
\* are nested and both outside Root, the outer one alone is kept.
C15_ExtrasDeduplicated ==
    Discovered =>
        /\ \A i \in 1..Len(extraWritableDirs) :
              /\ ~Inside(rootDirReal, extraWritableDirs[i])
              /\ \A j \in 1..Len(extraWritableDirs) :
                    i # j => ~Inside(extraWritableDirs[j], extraWritableDirs[i])
        /\ \A outer, inner \in {gitDirReal, gitCommonDirReal} :
              (/\ outer # Null /\ inner # Null /\ outer # inner
               /\ Inside(outer, inner)
               /\ ~Inside(rootDirReal, outer) /\ ~Inside(rootDirReal, inner))
                  => extraWritableDirs = <<outer>>

\* git dir /g/w inside the common dir /g: only /g is kept
C15_Witness ==
    /\ Discovered /\ gitDirReal = "/g/w" /\ gitCommonDirReal = "/g"
    /\ rootDirReal = "/h/p" /\ extraWritableDirs = <<"/g">>

\* a git query failed: it exited non-zero, was killed, or printed nothing
\* (for the work-tree check: anything but "true")
QueryFailed(q) == q.status # 0 \/ trim(OrEmpty(q.stdout)) = ""

DiscoveryFailed ==
    \/ QueryFailed(Env.git.inside) \/ trim(OrEmpty(Env.git.inside.stdout)) # "true"
    \/ QueryFailed(Env.git.gitDir)
    \/ QueryFailed(Env.git.gitCommonDir)

\* C16: if one of the git queries fails, discovery ends with no extra
\* writable directory.
C16_FailureYieldsEmpty ==
    (Discovered /\ DiscoveryFailed) => extraWritableDirs = <<>>

\* Root has an entry named .git
DotGitInRoot == joinPath(rootDirReal, ".git") \in DOMAIN Env.fs

\* C17: when Root has no .git entry, discovery grants no extra writable
\* directory, whatever git would answer, and a confined read-write command
\* binds Root and /tmp only.
C17_NoDotGitNoExtras ==
    (Discovered /\ ~DotGitInRoot) =>
        /\ extraWritableDirs = <<>>
        /\ (ConfinedDone /\ agent.modeSeen = "read-write")
              => BindDirs(ShellWords(agent.out.command)) = {rootDirReal, "/tmp"}

\* pi started where git answers with directories outside Root, but Root
\* itself has no .git entry
C17_Witness ==
    /\ Discovered /\ ~DotGitInRoot
    /\ ~QueryFailed(Env.git.inside) /\ trim(Env.git.inside.stdout) = "true"
    /\ Env.git.gitDir = Proc(0, "/g/w\n") /\ Env.git.gitCommonDir = Proc(0, "/g\r\n")
    /\ ConfinedDone /\ agent.modeSeen = "read-write"
    /\ extraWritableDirs = <<>>

\* the mode that follows m in the cycle of the shortcut
ModeAfter ==
    ("read-only" :> "read-write") @@ ("read-write" :> "yolo") @@ ("yolo" :> "read-only")

\* the shortcut handler proceeds from ensureRoot and advances the mode
AdvanceStep ==
    user.kind = "shortcut" /\ user.pc = "ensureRoot" /\ user'.pc = "done"

\* C18: an advance of the shortcut takes read-only to read-write,
\* read-write to yolo and yolo to read-only, so that three advances in a row
\* lead back to the mode they started from; it leaves Root, the git
\* directories, the extra writable directories and the bwrap path alone.
C18_ShortcutCycles ==
    [][AdvanceStep =>
          /\ mode' = ModeAfter[mode]
          /\ ModeAfter[ModeAfter[ModeAfter[mode]]] = mode
          /\ UNCHANGED rootVars]_vars

\* the shortcut has advanced yolo to read-only in the linked worktree
C18_Witness ==
    /\ user.kind = "shortcut" /\ user.pc = "done"
    /\ mode = "read-only" /\ user.note = "pi-sandbox mode: read-only"
    /\ extraWritableDirs = <<"/g">> /\ Truthy(bwrapPath)

\* the names /sandbox-mode accepts, in any letter case
ModeNames == {"read-only", "readonly", "ro", "read-write", "readwrite", "rw", "yolo"}

\* the command handler proceeds from ensureRoot with an argument that is
\* not blank and names no mode
UnknownModeStep ==
    /\ user.kind = "command" /\ user.pc = "ensureRoot" /\ user' # user
    /\ user.arg # Null /\ trim(user.arg) # ""
    /\ toLowerCase(trim(user.arg)) \notin ModeNames

\* C19: /sandbox-mode with a string that names no mode reports an error
\* that quotes the string and lists read-only, read-write and yolo, and
\* changes neither the mode, the active tools, the status line, Root nor the
\* extra writable directories.
C19_UnknownModeRejected ==
    [][UnknownModeStep =>
          /\ user'.pc = "done" /\ user'.level = "error"
          /\ includes(user'.note, trim(user.arg))
          /\ includes(user'.note, "read-only | read-write | yolo")
          /\ UNCHANGED <<mode, activeTools, status, rootVars>>]_vars

\* "rw,yolo" has been rejected
C19_Witness ==
    /\ user.kind = "command" /\ user.pc = "done" /\ user.level = "error"
    /\ user.note = "Unknown mode: rw,yolo. Use: read-only | read-write | yolo"

\* the order in which the discovery pass goes through its stages
PassOrder ==
    {<<"none", "realpath">>, <<"realpath", "bwrap">>, <<"bwrap", "git">>, <<"git", "done">>}

\* a handler is beyond its "await ensureRoot(ctx)"
PastEnsureRoot(h) == h.pc \notin {"idle", "ensureRoot"}

\* C20: the discovery pass is started by the first caller of ensureRoot only
\* and goes through its stages once, in order, whatever callers arrive in
\* the meantime; a completed pass is never redone; and no handler gets past
\* ensureRoot before the pass has completed.
C20_SingleFlight ==
    /\ [](/\ (PastEnsureRoot(agent) \/ PastEnsureRoot(user)) => rootInit = "resolved"
          /\ rootInit = "resolved" <=> initPc = "done"
          /\ rootInit = "unset" <=> initPc = "none")
    /\ [][/\ initPc' # initPc => <<initPc, initPc'>> \in PassOrder
          /\ rootInit # "unset" => (rootInit' # "unset" /\ rootDir' = rootDir)
          /\ rootInit = "resolved" => UNCHANGED rootVars]_vars

\* a tool call and a user handler both wait for the pass one of them started
C20_Witness ==
    /\ agent.pc = "ensureRoot" /\ user.pc = "ensureRoot"
    /\ rootInit = "pending" /\ initPc = "git"

\* no prefix of the requested path can be resolved, not even the root
NothingResolves ==
    \A k \in 0..Len(PathSegs(agent.abs)) :
        ~StatOk(Env.fs, PrefixPath(PathSegs(agent.abs), k))

\* a step of the canonicalization loop of a write/edit check
CanonStep == agent.pc = "canon" /\ agent' # agent

\* C27: canonicalization comes to an end with a decision after at most one
\* step per level of the requested path: a step of its loop either finishes,
\* or moves from a path that cannot be resolved to its parent, exactly one
\* level up and still an ancestor of the requested path, and at the root
\* it always finishes; when nothing can be resolved, not even the root, the
\* requested absolute path itself is the result.
C27_CanonTerminates ==
    [][CanonStep =>
          \/ /\ agent'.pc = "done"
             /\ agent'.out.status \in {"allow", "block"}
             /\ NothingResolves => agent'.out.canon = agent.abs
          \/ /\ agent'.pc = "canon"
             /\ ~StatOk(Env.fs, agent.cur)
             /\ PathSegs(agent.cur) # <<>>
             /\ PathSegs(agent'.cur)
                   = SubSeq(PathSegs(agent.cur), 1, Len(PathSegs(agent.cur)) - 1)
             /\ Inside(agent'.cur, agent.abs)]_vars

\* nothing resolves: /h/p/n/x is decided as it was requested
C27_Witness ==
    /\ WriteDone /\ NothingResolves /\ agent.abs = "/h/p/n/x"
    /\ agent.out.canon = "/h/p/n/x"

\* C21: once the discovery pass has completed, no step changes rootDir,
\* rootDirReal, the git directories, the extra writable directories or the
\* bwrap path, also when a later handler comes with a different ctx.cwd;
\* and no step of a tool_call check or of the bash override changes the
\* mode, the active tools or the status line.
C21_RootFixed ==
    [][/\ rootInit = "resolved" => UNCHANGED rootVars
       /\ agent' # agent => UNCHANGED <<mode, activeTools, status>>]_vars

\* a write decided for a caller whose cwd is not the directory the session
\* started in
C21_Witness ==
    /\ WriteDone /\ rootInit = "resolved" /\ rootDir = "/w" /\ agent.cwd = "/e"
    /\ extraWritableDirs = <<"/g">>

\* C22 as claimed: every denial of a write or edit names the requested
\* path, the canonical path and the permitted root in its reason.
C22_DenialExplains ==
    (WriteDone /\ Denied)
        => /\ includes(agent.out.text, agent.arg)
           /\ includes(agent.out.text, RequestedCanon)
           /\ includes(agent.out.text, rootDirReal)

\* C22 amended: every denial is a returned block decision with a reason; a
\* denial in read-write mode names the permitted root, the requested path
\* and the canonical path it resolved to; a denial in read-only mode names
\* the mode and the blocked tool only.
C22_DenialReasons ==
    (WriteDone /\ Denied)
        => /\ agent.out.status = "block" /\ agent.out.text # ""
           /\ agent.modeSeen \in {"read-only", "read-write"}
           /\ agent.modeSeen = "read-write" =>
                /\ agent.out.canon = RequestedCanon
                /\ includes(agent.out.text, "allowed under: " \o rootDirReal \o "\n")
                /\ includes(agent.out.text, "\nRequested: " \o agent.arg \o "\n")
                /\ endsWith(agent.out.text, "\nResolved: " \o RequestedCanon)
           /\ agent.modeSeen = "read-only" =>
                agent.out.text
                  = "pi-sandbox is in read-only mode (" \o agent.tool \o " blocked)."

\* an edit of ~/../e/f denied in read-write mode
C22_Witness ==
    /\ WriteDone /\ Denied /\ agent.modeSeen = "read-write" /\ agent.tool = "edit"
    /\ agent.arg = "~/../e/f" /\ ctxCwd = "/w"
    /\ agent.out.text
         = "Edits are only allowed under: /h/p\nRequested: ~/../e/f\nResolved: /e/f"

\* C26: a write or edit is never allowed at a moment when the mode is
\* read-only.
C26_NoAllowInReadOnly ==
    (WriteDone /\ Allowed) => mode # "read-only"

\* a handler has just called setMode: session_start, the shortcut, or the
\* command with a mode it accepted
SetModeStep ==
    /\ user.pc \in {"ensureRoot", "select"} /\ user'.pc = "done"
    /\ \/ user.kind \in {"session_start", "shortcut"}
       \/ user.kind = "command" /\ startsWith(user'.note, "pi-sandbox mode: ")

ToolCount(seq, t) == Cardinality({i \in 1..Len(seq) : seq[i] = t})

\* C28: after session_start and after every mode change the active tools
\* have neither edit nor write when the mode is read-only, and have each of
\* the two that is registered (once) when it is read-write or yolo; the
\* other active tools are the same, in the same order.
C28_ActiveTools ==
    [][SetModeStep =>
          /\ SelectSeq(activeTools', NotEditWrite) = SelectSeq(activeTools, NotEditWrite)
          /\ \A t \in {"edit", "write"} :
                ToolCount(activeTools', t)
                  = (IF mode' # "read-only" /\ Has(Env.allTools, t) THEN 1 ELSE 0)]_vars

\* read-only: write has been taken out of <<write, read>>
C28_Witness ==
    /\ user.pc = "done" /\ user.kind \in {"command", "shortcut"}
    /\ mode = "read-only" /\ Env.activeTools = <<"write", "read">>
    /\ activeTools = <<"read">>

(***************************************************************************)
(* The other plugins run in a session of their own: pi-sandbox is loaded   *)
(* but idle while they are exercised.                                      *)
(***************************************************************************)
SandboxAtRest ==
    /\ world = 1
    /\ ctxCwd = "/w"
    /\ activeTools = Worlds[1].activeTools
    /\ mode = "read-write"
    /\ rootDir = ProcessCwd
    /\ rootDirReal = ProcessCwd
    /\ rootInit = "unset"
    /\ initPc = "none"
    /\ bwrapPath = Null
    /\ gitDirReal = Null
    /\ gitCommonDirReal = Null
    /\ extraWritableDirs = <<>>
    /\ status = Null
    /\ agent = AgentIdle
    /\ user = UserIdle

Min(a, b) == IF a <= b THEN a ELSE b

Max(a, b) == IF a >= b THEN a ELSE b

\* array.slice(0, n)
Take(seq, n) == SubSeq(seq, 1, Min(n, Len(seq)))

(***************************************************************************)
(* pi-prompt-history (src/unnamed/part_003)                                *)
(***************************************************************************)
CACHE_TTL_MS == 30000

MAX_RESULTS == 120

MAX_VISIBLE == 10

Digits == "0123456789"

\* `${n}` for a non-negative integer
RECURSIVE NumStr(_)
NumStr(n) ==
    IF n < 10 THEN CharAt(Digits, n + 1)
    ELSE NumStr(n \div 10) \o CharAt(Digits, (n % 10) + 1)

buildSearchText(text, sessionName, cwd) ==
    toLowerCase(text \o "\n" \o OrEmpty(sessionName) \o "\n" \o cwd)

\* the record pushed by collectCurrentSessionPrompts and buildPromptIndex
PromptRecord(text, timestamp, sessionPath, sessionName, cwd) ==
    [text |-> text, timestamp |-> timestamp, sessionPath |-> sessionPath,
     sessionName |-> sessionName, cwd |-> cwd,
     searchText |-> buildSearchText(text, sessionName, cwd)]

\* the characters of q occur in t in this order
RECURSIVE InOrderIn(_, _)
InOrderIn(q, t) ==
    IF q = "" THEN TRUE
    ELSE IF t = "" THEN FALSE
    ELSE IF CharAt(q, 1) = CharAt(t, 1) THEN InOrderIn(slice(q, 1), slice(t, 1))
    ELSE InOrderIn(q, slice(t, 1))

\* fuzzyMatch(query, text).matches of pi-tui: both sides in lower case, the
\* characters of the query in order in the text
fuzzyMatch(query, text) == InOrderIn(toLowerCase(query), toLowerCase(text))

\* s.split(/\s+/).filter(Boolean)
RECURSIVE SplitBlank(_, _, _)
SplitBlank(s, cur, acc) ==
    IF s = "" THEN (IF cur = "" THEN acc ELSE Append(acc, cur))
    ELSE IF IsSpace(CharAt(s, 1))
         THEN SplitBlank(slice(s, 1), "", IF cur = "" THEN acc ELSE Append(acc, cur))
         ELSE SplitBlank(slice(s, 1), cur \o CharAt(s, 1), acc)

QueryTokens(query) == SplitBlank(trim(query), "", <<>>)

MatchesAll(tokens, record) ==
    \A i \in 1..Len(tokens) : fuzzyMatch(tokens[i], record.searchText)

\* as filterPrompts, without the limit on the number of results
filterPrompts_Unbounded(records, query) ==
    IF trim(query) = "" THEN records
    ELSE LET tokens == QueryTokens(query)
             Keep(record) == MatchesAll(tokens, record)
         IN  SelectSeq(records, Keep)

filterPrompts(records, query) ==
    IF trim(query) = "" THEN Take(records, MAX_RESULTS)
    ELSE LET tokens == QueryTokens(query)
             Keep(record) == MatchesAll(tokens, record)
         IN  Take(SelectSeq(records, Keep), MAX_RESULTS)

\* the key of the Map in mergePromptRecords
RecordKey(record) ==
    record.sessionPath \o "|" \o NumStr(record.timestamp) \o "|" \o record.text

\* the values of the Map, in insertion order: the first record of each key
RECURSIVE UniqueByKey(_, _, _)
UniqueByKey(seq, seen, acc) ==
    IF seq = <<>> THEN acc
    ELSE IF RecordKey(Head(seq)) \in seen
         THEN UniqueByKey(Tail(seq), seen, acc)
         ELSE UniqueByKey(Tail(seq), seen \cup {RecordKey(Head(seq))},
                          Append(acc, Head(seq)))

\* array.sort((a, b) => b.timestamp - a.timestamp): stable, newest first
RECURSIVE SortNewestFirst(_)
SortNewestFirst(seq) ==
    IF seq = <<>> THEN <<>>
    ELSE LET i == CHOOSE k \in 1..Len(seq) :
                     /\ \A j \in 1..Len(seq) : seq[j].timestamp <= seq[k].timestamp
                     /\ \A j \in 1..(k - 1) : seq[j].timestamp < seq[k].timestamp
         IN  <<seq[i]>> \o
             SortNewestFirst(SubSeq(seq, 1, i - 1) \o SubSeq(seq, i + 1, Len(seq)))

mergePromptRecords(base, extra) ==
    SortNewestFirst(UniqueByKey(base \o extra, {}, <<>>))

\* getCurrentSessionIdentity
CurrentSessionPath(h) ==
    IF h.sessionFile = Null THEN "(ephemeral-session)" ELSE h.sessionFile

HistoryCwd == "/w"

RecordsOf(entries, sessionPath, sessionName, cwd) ==
    [i \in 1..Len(entries) |->
        PromptRecord(entries[i].text, entries[i].timestamp, sessionPath, sessionName, cwd)]

collectCurrentSessionPrompts(h) ==
    RecordsOf(h.entries, CurrentSessionPath(h), Null, HistoryCwd)

\* the sessions SessionManager.listAll finds: the stored ones and, when the
\* current session has a file, the current one
ListedSessions(h) ==
    h.stored \o
    (IF h.sessionFile = Null THEN <<>>
     ELSE <<[path |-> h.sessionFile, name |-> Null, cwd |-> HistoryCwd,
             prompts |-> h.entries]>>)

RECURSIVE AllPrompts(_)
AllPrompts(sessions) ==
    IF sessions = <<>> THEN <<>>
    ELSE RecordsOf(Head(sessions).prompts, Head(sessions).path,
                   Head(sessions).name, Head(sessions).cwd)
         \o AllPrompts(Tail(sessions))

buildPromptIndex(h) == SortNewestFirst(AllPrompts(ListedSessions(h)))

\* getPromptIndex(false): the module state after the call
getPromptIndex(h) ==
    IF h.now - h.cacheUpdatedAt > CACHE_TTL_MS \/ Len(h.promptCache) = 0
    THEN [h EXCEPT !.promptCache = buildPromptIndex(h), !.cacheUpdatedAt = h.now]
    ELSE h

\* PromptHistorySelector.applyFilter
applyFilter(sel, query) ==
    LET f == filterPrompts(sel.records, query)
    IN  [sel EXCEPT !.filteredRecords = f,
                    !.selectedIndex = Min(sel.selectedIndex, Max(0, Len(f) - 1))]

\* new PromptHistorySelector(tui, theme, records, ...)
NewSelector(records) ==
    applyFilter([open |-> TRUE, records |-> records, filteredRecords |-> <<>>,
                 selectedIndex |-> 0, searchInput |-> ""], "")

\* as handleInputNav, moving up without wrapping
handleInputNav_NoWrap(sel, key) ==
    LET n == Len(sel.filteredRecords)
        i == sel.selectedIndex
    IN  IF n = 0 THEN sel
        ELSE [sel EXCEPT !.selectedIndex =
                CASE key = "selectUp" -> i - 1
                  [] key = "selectDown" -> IF i = n - 1 THEN 0 ELSE i + 1
                  [] key = "selectPageUp" -> Max(0, i - MAX_VISIBLE)
                  [] key = "selectPageDown" -> Min(n - 1, i + MAX_VISIBLE)]

\* handleInput for the four navigation keys
handleInputNav(sel, key) ==
    LET n == Len(sel.filteredRecords)
        i == sel.selectedIndex
    IN  IF n = 0 THEN sel
        ELSE [sel EXCEPT !.selectedIndex =
                CASE key = "selectUp" -> IF i = 0 THEN n - 1 ELSE i - 1
                  [] key = "selectDown" -> IF i = n - 1 THEN 0 ELSE i + 1
                  [] key = "selectPageUp" -> Max(0, i - MAX_VISIBLE)
                  [] key = "selectPageDown" -> Min(n - 1, i + MAX_VISIBLE)]

\* Input.handleInput of pi-tui, cursor at the end of the value: a printable
\* character is appended, backspace takes the last character away, any
\* other key leaves the value alone
InputValue(value, data) ==
    IF data = "backspace"
    THEN (IF value = "" THEN "" ELSE SubSeq(value, 1, Len(value) - 1))
    ELSE IF Len(data) = 1 THEN value \o data
    ELSE value

\* handleInput for a key that is none of the select keys
handleInputOther(sel, data) ==
    applyFilter([sel EXCEPT !.searchInput = InputValue(sel.searchInput, data),
                            !.selectedIndex = 0],
                InputValue(sel.searchInput, data))

QueryChars == {"a", "B", " "}

\* the queries that are typed: the prefixes of four queries
TypedQueries ==
    UNION { { SubSeq(q, 1, n) : n \in 0..Len(q) } : q \in {"B a", " a ", "aB", "a  "} }

OtherKeys == {"backspace", "left"}

SelectorOpen == history.selector.open

SelectUp ==
    /\ SelectorOpen
    /\ history' = [history EXCEPT !.selector = handleInputNav(@, "selectUp")]
    /\ UNCHANGED <<sandboxVars, startup, footer>>

SelectDown ==
    /\ SelectorOpen
    /\ history' = [history EXCEPT !.selector = handleInputNav(@, "selectDown")]
    /\ UNCHANGED <<sandboxVars, startup, footer>>

SelectPageUp ==
    /\ SelectorOpen
    /\ history' = [history EXCEPT !.selector = handleInputNav(@, "selectPageUp")]
    /\ UNCHANGED <<sandboxVars, startup, footer>>

SelectPageDown ==
    /\ SelectorOpen
    /\ history' = [history EXCEPT !.selector = handleInputNav(@, "selectPageDown")]
    /\ UNCHANGED <<sandboxVars, startup, footer>>

SearchInput ==
    /\ SelectorOpen
    /\ \E data \in QueryChars \cup OtherKeys :
          /\ InputValue(history.selector.searchInput, data) \in TypedQueries
          /\ history' = [history EXCEPT !.selector = handleInputOther(@, data)]
    /\ UNCHANGED <<sandboxVars, startup, footer>>

\* basename(path)
basename(path) == SplitSlash(path)[Len(SplitSlash(path))]

\* selectConfirm: selectCurrent, and the shortcut handler's continuation
\* when a record was selected
SelectConfirm ==
    /\ SelectorOpen
    /\ LET sel == history.selector
       IN  IF sel.selectedIndex + 1 \in 1..Len(sel.filteredRecords)
           THEN LET selected == sel.filteredRecords[sel.selectedIndex + 1]
                    source == IF trim(OrEmpty(selected.sessionName)) # ""
                              THEN trim(selected.sessionName)
                              ELSE basename(selected.sessionPath)
                IN  history' = [history EXCEPT
                                  !.selector = NoSelector,
                                  !.editorText = selected.text,
                                  !.notified = "Loaded prompt from " \o source]
           ELSE history' = history
    /\ UNCHANGED <<sandboxVars, startup, footer>>

\* selectCancel, or escape in the search input: done(null)
SelectCancel ==
    /\ SelectorOpen
    /\ history' = [history EXCEPT !.selector = NoSelector]
    /\ UNCHANGED <<sandboxVars, startup, footer>>

\* the shortcut handler up to the selector being shown
HistoryShortcut ==
    /\ ~SelectorOpen
    /\ LET h == getPromptIndex(history)
           records == mergePromptRecords(h.promptCache, collectCurrentSessionPrompts(h))
       IN  IF Len(records) = 0
           THEN history' = [h EXCEPT !.notified = "No user prompts found in session history."]
           ELSE history' = [h EXCEPT !.selector = NewSelector(records)]
    /\ UNCHANGED <<sandboxVars, startup, footer>>

MaxEntries == 2

MaxNow == 30004

MaxDrift == 3

PromptTexts == {"x", "2|x"}

\* the user submits a prompt: the session gets a user message stamped now
HistoryPrompt ==
    /\ ~SelectorOpen
    /\ Len(history.entries) < MaxEntries
    /\ \E text \in PromptTexts :
          history' = [history EXCEPT
                        !.entries = Append(@, [text |-> text, timestamp |-> history.now])]
    /\ UNCHANGED <<sandboxVars, startup, footer>>

\* time passes: Date.now() grows. The clock is followed at the instants
\* up to MaxDrift ms after a multiple of the cache's time to live.
HistoryTick ==
    /\ \E d \in {1, CACHE_TTL_MS} :
          /\ history.now + d <= MaxNow
          /\ (history.now + d) % CACHE_TTL_MS <= MaxDrift
          /\ history' = [history EXCEPT !.now = @ + d]
    /\ UNCHANGED <<sandboxVars, startup, footer>>

\* the sessions found on disk when the plugin is loaded
StoredChoices ==
    { <<>>,
      <<[path |-> "s|1", name |-> Null, cwd |-> "/e",
         prompts |-> <<[text |-> "x", timestamp |-> 2]>>]>>,
      <<[path |-> "/t/u", name |-> "T", cwd |-> "/e",
         prompts |-> <<[text |-> "x", timestamp |-> 1],
                       [text |-> "y", timestamp |-> 3]>>]>> }

HistoryInit ==
    /\ SandboxAtRest
    /\ startup = StartupAtLoad
    /\ footer = FooterAtLoad
    /\ \E st \in StoredChoices, file \in {Null, "s"} :
          history = [HistoryAtLoad EXCEPT !.stored = st, !.sessionFile = file]

HistoryNext ==
    \/ HistoryPrompt \/ HistoryTick \/ HistoryShortcut
    \/ SelectDown \/ SelectConfirm \/ SelectCancel

HistorySpec == HistoryInit /\ [][HistoryNext]_vars

\* the (sessionPath, timestamp, text) key of a record
KeyTriple(record) == <<record.sessionPath, record.timestamp, record.text>>

\* the list the selector shows has the record of every prompt of the
\* current session
HasCurrentPrompts ==
    \A r \in SeqRange(collectCurrentSessionPrompts(history)) :
        \E i \in 1..Len(history.selector.records) :
            KeyTriple(history.selector.records[i]) = KeyTriple(r)

NoTwoOfOneKey ==
    \A i, j \in 1..Len(history.selector.records) :
        i # j => KeyTriple(history.selector.records[i]) # KeyTriple(history.selector.records[j])

NewestFirst ==
    \A i, j \in 1..Len(history.selector.records) :
        i < j => history.selector.records[i].timestamp >= history.selector.records[j].timestamp

\* C24: the list merged from the cached index and the prompts of the current
\* session has every prompt of the current session, also when the cache is
\* fresh and older than the prompt, has no two records of one
\* (sessionPath, timestamp, text) key, and is sorted by timestamp, newest
\* first.
C24_MergedRecords ==
    SelectorOpen => HasCurrentPrompts /\ NoTwoOfOneKey /\ NewestFirst

(***************************************************************************)
(* The selector on long lists                                              *)
(***************************************************************************)
ListSizes == {1, 2, 12, 121, 155}

SampleTexts == <<"ab", "Ba", "b a">>

\* the text of the j-th prompt of the stored session
SampleText(j) == IF j % 5 = 0 THEN "c" ELSE SampleTexts[(j % 3) + 1]

\* a stored session of n prompts, the oldest first
LongSession(n) ==
    [path |-> "/t/u", name |-> Null, cwd |-> "/e",
     prompts |-> [j \in 1..n |-> [text |-> SampleText(j), timestamp |-> j]]]

\* its index: the records of its prompts, the newest first
LongIndex(n) ==
    [i \in 1..n |-> PromptRecord(SampleText(n - i + 1), n - i + 1, "/t/u", Null, "/e")]

\* the shortcut has been pressed in a new session, with one stored session
SelectorInit ==
    /\ SandboxAtRest
    /\ startup = StartupAtLoad
    /\ footer = FooterAtLoad
    /\ \E n \in ListSizes :
          history = [HistoryAtLoad EXCEPT
                        !.stored = <<LongSession(n)>>,
                        !.promptCache = LongIndex(n),
                        !.cacheUpdatedAt = 1,
                        !.selector = NewSelector(LongIndex(n))]

SelectorNext ==
    \/ SelectUp \/ SelectDown \/ SelectPageUp \/ SelectPageDown \/ SearchInput

SelectorSpec == SelectorInit /\ [][SelectorNext]_vars

\* the whitespace-separated tokens of a query: its longest runs of
\* characters that are not white space
TokensOf(q) ==
    { SubSeq(q, ij[1], ij[2]) :
        ij \in { p \in (1..Len(q)) \X (1..Len(q)) :
                   /\ p[1] <= p[2]
                   /\ \A k \in p[1]..p[2] : ~IsSpace(CharAt(q, k))
                   /\ p[1] = 1 \/ IsSpace(CharAt(q, p[1] - 1))
                   /\ p[2] = Len(q) \/ IsSpace(CharAt(q, p[2] + 1)) } }

\* sub is made of elements of full, in the order they have in full; full
\* has no element twice
KeepsOrder(sub, full) ==
    LET Pos(r) == CHOOSE i \in 1..Len(full) : full[i] = r
    IN  /\ \A k \in 1..Len(sub) : \E i \in 1..Len(full) : full[i] = sub[k]
        /\ \A k \in 1..(Len(sub) - 1) : Pos(sub[k]) < Pos(sub[k + 1])

\* C23: filterPrompts only removes records: what it returns is a
\* subsequence of the record list in the same order, of at most 120
\* records, each of which matches every whitespace-separated token of the
\* query; for an empty query it is the first 120 records.
C23_FilterOnlyRemoves ==
    SelectorOpen =>
      LET sel == history.selector
      IN  /\ KeepsOrder(sel.filteredRecords, sel.records)
          /\ Len(sel.filteredRecords) <= 120
          /\ \A k \in 1..Len(sel.filteredRecords) :
                \A t \in TokensOf(sel.searchInput) :
                    fuzzyMatch(t, sel.filteredRecords[k].searchText)
          /\ TokensOf(sel.searchInput) = {} =>
                sel.filteredRecords = SubSeq(sel.records, 1, Min(120, Len(sel.records)))

\* the query "B a" on 155 records: more than 120 match both tokens, the
\* 120 newest of them are shown, and a record without an "a" is left out
C23_Witness ==
    /\ SelectorOpen
    /\ history.selector.searchInput = "B a"
    /\ Len(history.selector.records) = 155
    /\ Len(history.selector.filteredRecords) = 120
    /\ history.selector.filteredRecords[1] # history.selector.records[1]

\* the key handled was one of the four navigation keys, and this is the index
\* it has left
Moved(key) ==
    /\ history'.selector.searchInput = history.selector.searchInput
    /\ history'.selector.selectedIndex
         = handleInputNav(history.selector, key).selectedIndex

\* the input handled has changed the value of the search input
FilterChanges ==
    history'.selector.searchInput # history.selector.searchInput

\* the index after one of the four navigation keys, as C29 states it
WrapsOrClamps ==
    LET n == Len(history.selector.filteredRecords)
        i == history.selector.selectedIndex
        i2 == history'.selector.selectedIndex
    IN  n > 0 =>
          /\ Moved("selectUp") => i2 = (IF i = 0 THEN n - 1 ELSE i - 1)
          /\ Moved("selectDown") => i2 = (IF i = n - 1 THEN 0 ELSE i + 1)
          /\ Moved("selectPageUp") => i2 = (IF i < 10 THEN 0 ELSE i - 10)
          /\ Moved("selectPageDown") => i2 = (IF i + 10 > n - 1 THEN n - 1 ELSE i + 10)


\* C29: in the selector 0 <= selectedIndex <= max(0, filteredRecords.length - 1)
\* after every sequence of keys; up and down wrap around at the ends, page
\* up and page down stop at the ends, and an input that changes the filter
\* puts the index back to 0.
C29_SelectedIndex ==
    /\ [](SelectorOpen =>
            /\ 0 <= history.selector.selectedIndex
            /\ history.selector.selectedIndex
                 <= Max(0, Len(history.selector.filteredRecords) - 1))
    /\ [][WrapsOrClamps /\ (FilterChanges => history'.selector.selectedIndex = 0)]_vars

\* the last of 12 records is selected and no record is left after typing
C29_Witness ==
    /\ SelectorOpen
    /\ Len(history.selector.records) = 12
    /\ history.selector.selectedIndex = 11
    /\ Len(history.selector.searchInput) = 0

(***************************************************************************)
(* pi-default-model (src/index.ts) and its variant with the /startup-model *)
(* command (src/unnamed/part_004)                                          *)
(***************************************************************************)
\* (rawArgs ?? "").trim().split(/\s+/).filter(Boolean)
tokenize(rawArgs) == SplitBlank(trim(rawArgs), "", <<>>)

Malformed == [kind |-> "malformed", startupModel |-> NoValue, theme |-> ""]

JsonObject(startupModel, theme) ==
    [kind |-> "object", startupModel |-> startupModel, theme |-> theme]

StringValue(text) == [type |-> "string", model |-> text, thinkingLevel |-> Null]

ConfigValue(model, thinkingLevel) ==
    [type |-> "object", model |-> model, thinkingLevel |-> thinkingLevel]

\* readJson: undefined (ok FALSE) when the file cannot be read or parsed
readJson(files, path) ==
    IF files[path].kind = "object"
    THEN [ok |-> TRUE, startupModel |-> files[path].startupModel, theme |-> files[path].theme]
    ELSE [ok |-> FALSE, startupModel |-> NoValue, theme |-> ""]

\* writeJson: mkdir, then the file is the JSON text of the object
writeJson(files, path, data) ==
    [files EXCEPT ![path] = JsonObject(data.startupModel, data.theme)]

\* undefined
NotSet == [model |-> "", thinkingLevel |-> Null, source |-> Null]

parseStoredStartupModel(value) ==
    IF value.type = "string"
    THEN (IF trim(value.model) # ""
          THEN [model |-> trim(value.model), thinkingLevel |-> Null]
          ELSE [model |-> "", thinkingLevel |-> Null])
    ELSE IF value.type # "object" THEN [model |-> "", thinkingLevel |-> Null]
    ELSE LET model == IF value.model = Null THEN "" ELSE trim(value.model)
             thinkingLevel == IF value.thinkingLevel = Null THEN Null
                              ELSE trim(value.thinkingLevel)
         IN  IF model = "" THEN [model |-> "", thinkingLevel |-> Null]
             ELSE IF Truthy(thinkingLevel)
                  THEN [model |-> model, thinkingLevel |-> thinkingLevel]
                  ELSE [model |-> model, thinkingLevel |-> Null]

RECURSIVE FirstSetting(_, _, _)
FirstSetting(files, cwd, scopes) ==
    IF scopes = <<>> THEN NotSet
    ELSE LET settings == readJson(files, getSettingsPath(cwd, Head(scopes)))
             parsed == parseStoredStartupModel(settings.startupModel)
         IN  IF parsed.model # ""
             THEN [model |-> parsed.model, thinkingLevel |-> parsed.thinkingLevel,
                   source |-> Head(scopes)]
             ELSE FirstSetting(files, cwd, Tail(scopes))

\* scope Null: no scope is given
getStartupModelSetting(files, cwd, scope) ==
    FirstSetting(files, cwd, IF scope # Null THEN <<scope>> ELSE <<"project", "global">>)

\* as setStartupModelSetting, writing the global file for every scope
setStartupModelSetting_AnyScope(files, cwd, scope, value) ==
    LET path == getSettingsPath(cwd, "global")
        read == readJson(files, path)
    IN  writeJson(files, path, [startupModel |-> value, theme |-> read.theme])

\* value NoValue: no value is given, the key is deleted
setStartupModelSetting(files, cwd, scope, value) ==
    LET path == getSettingsPath(cwd, scope)
        read == readJson(files, path)
    IN  writeJson(files, path, [startupModel |-> value, theme |-> read.theme])

\* undefined: provider ""
parseModelSpec(spec) ==
    LET parts == SplitSlash(trim(spec))
        provider == Head(parts)
        modelId == trim(JoinSlash(Tail(parts)))
    IN  IF trim(provider) = "" \/ modelId = "" THEN NoModel
        ELSE [provider |-> trim(provider), id |-> modelId]

parseScope(rawArgs, defaultScope) ==
    LET tokens == tokenize(rawArgs)
    IN  IF Has(tokens, "--project") \/ Has(tokens, "-p") THEN "project"
        ELSE IF Has(tokens, "--global") \/ Has(tokens, "-g") THEN "global"
        ELSE defaultScope

wantsHelp(rawArgs) ==
    LET tokens == tokenize(rawArgs)
    IN  \E i \in 1..Len(tokens) : tokens[i] \in {"--help", "-h", "help"}

wantsClear(rawArgs) ==
    LET tokens == tokenize(rawArgs)
    IN  Has(tokens, "--clear") \/ Has(tokens, "-c")

parseShowOrClear(rawArgs) ==
    [scope |-> parseScope(rawArgs, "global"),
     action |-> IF Has(tokenize(rawArgs), "clear") THEN "clear" ELSE "show"]

\* `${ctx.model.provider}/${ctx.model.id}` and pi.getThinkingLevel()
CurrentConfig ==
    ConfigValue(startup.model.provider \o "/" \o startup.model.id, startup.thinkingLevel)

\* setStatus of part_004
statusOf(model, thinkingLevel) ==
    IF model = "" THEN Null
    ELSE "startup:" \o model \o
         (IF Truthy(thinkingLevel) THEN " (" \o thinkingLevel \o ")" ELSE "")

\* the models of ctx.modelRegistry
Registry == {[provider |-> "q", id |-> "n/o"]}

ThinkingLevels == {"off", "high"}

SetDefaultModelArgs ==
    {"", "--project", "--clear", " -c  -p", "--global --project", "--help"}

\* /set-default-model of src/index.ts
SetDefaultModel ==
    /\ \E args \in SetDefaultModelArgs :
         LET scope == parseScope(args, "global")
             path == getSettingsPath(startup.cwd, scope)
         IN  IF wantsHelp(args)
             THEN startup' = [startup EXCEPT !.notified = "Usage:"]
             ELSE IF wantsClear(args)
             THEN /\ startup.writable
                  /\ startup' = [startup EXCEPT
                        !.files = setStartupModelSetting(@, startup.cwd, scope, NoValue),
                        !.notified = "Cleared startupModel (" \o scope \o ") in " \o path]
             ELSE IF startup.model = NoModel
             THEN startup' = [startup EXCEPT !.notified = "No active model to save."]
             ELSE /\ startup.writable
                  /\ startup' = [startup EXCEPT
                        !.files = setStartupModelSetting(@, startup.cwd, scope, CurrentConfig),
                        !.notified = "Saved startupModel (" \o scope \o ") in " \o path
                                     \o ": " \o CurrentConfig.model
                                     \o " (" \o CurrentConfig.thinkingLevel \o ")"]
    /\ UNCHANGED <<sandboxVars, history, footer>>

\* a handler that writes a settings file which cannot be written: writeJson
\* rejects, the handler's promise rejects, nothing is written or notified
WriteFails ==
    /\ ~startup.writable
    /\ UNCHANGED vars

StartupModelArgs ==
    {"", "show --project", "clear", "-p clear", "help"}

\* /startup-model of part_004
StartupModel ==
    /\ \E args \in StartupModelArgs :
         LET parsed == parseShowOrClear(args)
             path == getSettingsPath(startup.cwd, parsed.scope)
             setting == getStartupModelSetting(startup.files, startup.cwd, parsed.scope)
         IN  IF wantsHelp(args)
             THEN startup' = [startup EXCEPT
                     !.notified = "Usage: /startup-model [show|clear] [--global|--project] (default: --global)"]
             ELSE IF parsed.action = "clear"
             THEN /\ startup.writable
                  /\ startup' = [startup EXCEPT
                        !.files = setStartupModelSetting(@, startup.cwd, parsed.scope, NoValue),
                        !.status = Null,
                        !.notified = "Cleared startupModel in " \o path]
             ELSE IF setting = NotSet
             THEN startup' = [startup EXCEPT
                     !.notified = "startupModel (" \o parsed.scope \o "): (not set)"]
             ELSE startup' = [startup EXCEPT
                     !.notified = "startupModel (" \o parsed.scope \o "): " \o setting.model
                        \o (IF Truthy(setting.thinkingLevel)
                            THEN ", thinking:" \o setting.thinkingLevel ELSE "")]
    /\ UNCHANGED <<sandboxVars, history, footer>>

\* /set-project-default-model and its alias /set-default-model-project of
\* part_004
SetProjectDefaultModel ==
    /\ IF startup.model = NoModel
       THEN startup' = [startup EXCEPT !.notified = "No active model to save."]
       ELSE /\ startup.writable
            /\ startup' = [startup EXCEPT
                  !.files = setStartupModelSetting(@, startup.cwd, "project", CurrentConfig),
                  !.status = statusOf(CurrentConfig.model, CurrentConfig.thinkingLevel),
                  !.notified = "Saved startupModel (project) in "
                               \o getSettingsPath(startup.cwd, "project")
                               \o ": " \o CurrentConfig.model
                               \o " (" \o CurrentConfig.thinkingLevel \o ")"]
    /\ UNCHANGED <<sandboxVars, history, footer>>

\* session_start: applyStartupModel of part_004
StartupSessionStart ==
    /\ LET setting == getStartupModelSetting(startup.files, startup.cwd, Null)
           target == parseModelSpec(setting.model)
           shown == [startup EXCEPT !.status = statusOf(setting.model, setting.thinkingLevel)]
       IN  IF setting = NotSet THEN startup' = shown
           ELSE IF target = NoModel
           THEN startup' = [shown EXCEPT
                   !.notified = "Invalid startupModel '" \o setting.model
                                \o "'. Use provider/model."]
           ELSE IF target \notin Registry
           THEN startup' = [shown EXCEPT
                   !.notified = "startupModel not found: " \o target.provider
                                \o "/" \o target.id]
           ELSE startup' = [shown EXCEPT
                   !.model = target,
                   !.thinkingLevel = IF Truthy(setting.thinkingLevel)
                                     THEN setting.thinkingLevel ELSE @]
    /\ UNCHANGED <<sandboxVars, history, footer>>

\* the user selects a model or a thinking level
ModelSelect ==
    /\ \E m \in Registry, level \in ThinkingLevels :
          /\ <<m, level>> # <<startup.model, startup.thinkingLevel>>
          /\ startup' = [startup EXCEPT !.model = m, !.thinkingLevel = level]
    /\ UNCHANGED <<sandboxVars, history, footer>>

\* the settings files found when pi starts
FileShapes ==
    { Absent, Malformed,
      JsonObject(StringValue(" p/m "), ""),
      JsonObject(ConfigValue("q/n/o", " high "), "dark") }

StartupInit ==
    /\ SandboxAtRest
    /\ history = HistoryAtLoad
    /\ footer = FooterAtLoad
    /\ \E cwd \in StartupCwds, g \in FileShapes, pr \in FileShapes,
          m \in Registry \cup {NoModel}, w \in BOOLEAN :
          startup = [StartupAtLoad EXCEPT
                        !.cwd = cwd,
                        !.files = [p \in SettingsPaths |->
                                     IF p = GLOBAL_SETTINGS_PATH THEN g
                                     ELSE IF p = getSettingsPath(cwd, "project") THEN pr
                                     ELSE Absent],
                        !.model = m,
                        !.writable = w]

StartupNext ==
    \/ SetDefaultModel \/ StartupModel \/ SetProjectDefaultModel
    \/ StartupSessionStart \/ ModelSelect \/ WriteFails

StartupSpec == StartupInit /\ [][StartupNext]_vars

Scopes == {"global", "project"}

OtherScope(s) == IF s = "global" THEN "project" ELSE "global"

\* what reading scope s returns
ReadScope(st, s) == getStartupModelSetting(st.files, st.cwd, s)

\* a command has written a settings file: every command that writes one
\* tells the user which scope (in src/index.ts) or which file (in part_004)
\* it has written, and the model and level it has saved
Wrote ==
    startup'.files # startup.files \/ startup'.notified # startup.notified

\* one of the save commands has saved the current model for scope s
SavedStep(s) ==
    /\ Wrote
    /\ startsWith(startup'.notified, "Saved startupModel (" \o s \o ")")

\* one of the clear commands has cleared scope s
ClearedStep(s) ==
    /\ Wrote
    /\ \/ startsWith(startup'.notified, "Cleared startupModel (" \o s \o ")")
       \/ startup'.notified = "Cleared startupModel in " \o getSettingsPath(startup.cwd, s)

\* C25: per scope of the startup-model store (global by default, project
\* with --project), reading a scope after saving to it returns the saved
\* provider/model and thinking level, reading it after clearing it returns
\* "not set", and saving or clearing one scope leaves what is stored for the
\* other scope as it was.
C25_StartupModelStore ==
    [][\A s \in Scopes :
          /\ SavedStep(s) =>
                ReadScope(startup', s) =
                   [model |-> startup.model.provider \o "/" \o startup.model.id,
                    thinkingLevel |-> startup.thinkingLevel,
                    source |-> s]
          /\ ClearedStep(s) => ReadScope(startup', s) = NotSet
          /\ SavedStep(s) \/ ClearedStep(s) =>
                /\ ReadScope(startup', OtherScope(s)) = ReadScope(startup, OtherScope(s))
                /\ startup'.files[getSettingsPath(startup.cwd, OtherScope(s))]
                     = startup.files[getSettingsPath(startup.cwd, OtherScope(s))]]_vars

\* the project scope has just been saved while the global scope holds
\* another model
C25_Witness ==
    /\ startup.notified # Null
    /\ startsWith(startup.notified, "Saved startupModel (project)")
    /\ ReadScope(startup, "project").model = "q/n/o"
    /\ ReadScope(startup, "global").model = "p/m"

(***************************************************************************)
(* The footer plugin (src/unnamed/part_000)                                *)
(***************************************************************************)
\* as clearInteractionTimer, dropping the handle without clearInterval
clearInteractionTimer_Forget(f) == [f EXCEPT !.interactionTimer = Undefined]

\* if (interactionTimer) { clearInterval(interactionTimer); interactionTimer = undefined; }
clearInteractionTimer(f) ==
    IF f.interactionTimer # Undefined
    THEN [f EXCEPT !.timers = @ \ {f.interactionTimer[1]},
                   !.interactionTimer = Undefined]
    ELSE f

forceFooterRerender(f) == IF f.hasUI THEN [f EXCEPT !.tick = Num(f.now)] ELSE f

clearFooterTick(f) == IF f.hasUI THEN [f EXCEPT !.tick = Undefined] ELSE f

hideTokenWidget(f) ==
    IF f.hasUI /\ f.tokenWidgetVisible THEN [f EXCEPT !.tokenWidgetVisible = FALSE] ELSE f

showTokenWidget(f) ==
    IF f.hasUI /\ ~f.tokenWidgetVisible THEN [f EXCEPT !.tokenWidgetVisible = TRUE] ELSE f

\* updateModelLabel for the model the context holds
ModelLabels == {"no-model", "q/n"}

MaxTimers == 3

MaxFooterNow == 150

\* agent_start
FooterAgentStart ==
    /\ footer.created < MaxTimers
    /\ LET cleared == clearInteractionTimer(footer)
           started == forceFooterRerender(
                         [cleared EXCEPT !.interactionStartedAtMs = Num(footer.now),
                                         !.lastElapsedTenths = Num(0)])
           id == footer.created + 1
       IN  footer' = [started EXCEPT !.timers = @ \cup {id},
                                     !.interactionTimer = Num(id),
                                     !.created = id]
    /\ UNCHANGED <<sandboxVars, history, startup>>

\* agent_end
FooterAgentEnd ==
    /\ LET cleared == clearInteractionTimer(footer)
           kept == IF cleared.interactionStartedAtMs # Undefined
                   THEN [cleared EXCEPT !.lastElapsedTenths =
                           Num((footer.now - cleared.interactionStartedAtMs[1]) \div 100)]
                   ELSE cleared
       IN  footer' = clearFooterTick(forceFooterRerender(
                        [kept EXCEPT !.interactionStartedAtMs = Undefined]))
    /\ UNCHANGED <<sandboxVars, history, startup>>

\* session_switch
FooterSessionSwitch ==
    /\ \E label \in ModelLabels :
         LET cleared == clearInteractionTimer(footer)
             reset == hideTokenWidget(
                         [cleared EXCEPT !.interactionStartedAtMs = Undefined,
                                         !.lastElapsedTenths = Undefined])
         IN  footer' = forceFooterRerender([reset EXCEPT !.activeModel = label])
    /\ UNCHANGED <<sandboxVars, history, startup>>

\* session_shutdown
FooterSessionShutdown ==
    /\ footer' = clearFooterTick(hideTokenWidget(clearInteractionTimer(footer)))
    /\ UNCHANGED <<sandboxVars, history, startup>>

\* a live interval timer fires: the callback of agent_start
FooterTimerFires ==
    /\ \E id \in footer.timers :
          footer' = IF footer.interactionStartedAtMs = Undefined THEN footer
                    ELSE forceFooterRerender(footer)
    /\ UNCHANGED <<sandboxVars, history, startup>>

\* the footer is rendered: the token statistics fit on the line, or they go
\* to the widget above the editor
FooterRender ==
    /\ \E fits \in BOOLEAN :
          footer' = IF fits THEN hideTokenWidget(footer) ELSE showTokenWidget(footer)
    /\ UNCHANGED <<sandboxVars, history, startup>>

\* 50 ms pass
FooterTick ==
    /\ footer.now + 50 <= MaxFooterNow
    /\ footer' = [footer EXCEPT !.now = @ + 50]
    /\ UNCHANGED <<sandboxVars, history, startup>>

FooterInit ==
    /\ SandboxAtRest
    /\ history = HistoryAtLoad
    /\ startup = StartupAtLoad
    /\ \E ui \in BOOLEAN : footer = [FooterAtLoad EXCEPT !.hasUI = ui]

FooterNext ==
    \/ FooterAgentStart \/ FooterAgentEnd \/ FooterSessionSwitch
    \/ FooterSessionShutdown \/ FooterTimerFires \/ FooterRender \/ FooterTick

FooterSpec == FooterInit /\ [][FooterNext]_vars

\* an agent_end, session_switch or session_shutdown handler has run
StopStep == FooterAgentEnd \/ FooterSessionSwitch \/ FooterSessionShutdown

\* C30: in the footer plugin at most one interval timer is live at any time,
\* whatever the sequence of agent_start, agent_end, session_switch and
\* session_shutdown events: an agent_start leaves the one timer it has made,
\* and no timer is live after agent_end, session_switch or session_shutdown.
C30_OneTimer ==
    /\ [](Cardinality(footer.timers) <= 1)
    /\ [][/\ FooterAgentStart => footer'.timers = {footer'.created}
          /\ StopStep => footer'.timers = {}]_vars

\* the second agent_start of a session without an agent_end in between: the
\* timer of the first has been cleared
C30_Witness ==
    /\ footer.created = 2
    /\ footer.timers = {2}
    /\ footer.lastElapsedTenths = Num(0)
    /\ footer.now > 0

====
